---- MODULE Spec2Model ----
(***************************************************************************)
(* Narrative generation, model fallback and HTML polish of the AI audit    *)
(* report generator.                                                       *)
(*                                                                         *)
(* One run is modelled: an orchestrator fills the markers of a report      *)
(* (LLMExecutor.fillPlaceholders, one call per placeholder, or             *)
(* BatchLLMExecutor.fillAllNarratives, one generation call and one         *)
(* refinement call), the report is validated and rendered, and a fresh     *)
(* LLMExecutor polishes the rendered HTML (LLMExecutor.polishHTML).        *)
(*                                                                         *)
(* Time is counted in ticks of TickMs milliseconds.  The only clock reads  *)
(* of the code are differences (Date.now() - lastRequestTime), so the      *)
(* model keeps elapsed times, saturated at MaxElapsed, where every         *)
(* comparison the code makes is already decided.                           *)
(* Token counts (stats.tokensUsed) and log output are not modelled.        *)
(***************************************************************************)
EXTENDS Integers, Sequences, FiniteSets, TLC

\* ------------------------------------------------------------------ bounds
\* length of the fallback chain MODEL_FALLBACK_ORDER
NumModels == 3
\* number of leaf string fields of the report
NumFields == 2
\* longest duration of one remote request, in ticks
MaxLatency == 1
\* largest retry-after a backend signals, in ticks
MaxRetryAfter == 1
\* longest text handed to the deterministic polish, in tokens
MaxTextLen == 3
\* longest array of the nested report
MaxArrayLen == 2
\* longest array a model returns for an array_of_strings prompt
MaxOutputLen == 3
\* largest maxRetries a caller configures
MaxRetriesOption == 3
\* longest rendered text handed to polishHTML, in stretches
MaxHtmlLen == 2

\* ------------------------------------------------------- program constants
\* one tick: the base of the linear backoff, 5000 * (attempt + 1)
TickMs == 5000
\* manualPolishHTML: if (doubleSpaces > 10)
WhitespaceThreshold == 10
\* this.maxRetries = options.maxRetries || 2
LLMMaxRetries == 2
\* this.maxRetries = options.maxRetries || 3
BatchMaxRetries == 3

Models == 1..NumModels
Fields == 1..NumFields
NoModel == 0

Min(a, b) == IF a < b THEN a ELSE b
Max(a, b) == IF a > b THEN a ELSE b

\* ------------------------------------------------ model registry (lookups)
\* MODEL_FALLBACK_ORDER: rank 1 is the preferred model
MODEL_FALLBACK_ORDER == [r \in Models |-> r]

\* next(current): the model right after current in rank order, or none
getNextFallbackModel(m) ==
    IF m \in Models /\ m < NumModels THEN MODEL_FALLBACK_ORDER[m + 1] ELSE NoModel

\* minimum spacing between two calls to model m, in ticks; tighter limits for
\* the preferred models, none on the paid tier
delay_ms(m) == IF m = 1 THEN 3 ELSE IF m = 2 THEN 2 ELSE 1

getModelDelay(m, usePaidTier) == IF usePaidTier THEN 0 ELSE delay_ms(m)

\* the fixed wait used when a rate-limit error signals no retry-after
DefaultRetryAfter == 2

\* ra = 0: the error carries no retry-after
parseRetryAfter(ra) == IF ra = 0 THEN DefaultRetryAfter ELSE ra

isRateLimitError(err) == err = "rateLimited"

\* a test that takes every error but a rate limit for a network error
isRetryableUnlessRateLimit(err) == ~isRateLimitError(err)

\* err.message.includes('fetch failed' | 'network' | 'ECONNRESET' | 'timeout')
isRetryable(err) == err = "transient"

\* elapsed times saturate here: no comparison of the code looks further
MaxElapsed == delay_ms(1)

Elapse(t, d) == Min(MaxElapsed, t + d)


\* ---------------------------------------------------------------- document
\* A leaf string of the report:
\*   "marker"    a well-formed [LLM_PLACEHOLDER: name] whose name has a prompt
\*   "unmapped"  a well-formed marker with no prompt mapping / registry entry
\*   "text"      any marker-free text written by the transform
\*   "generated" text returned by a model
\*   "dry_run"   the stub '[DRY_RUN: Would call LLM with prompt ...]'
\*   "default"   a default sentence of the deterministic polish
InputValues == {"marker", "unmapped", "text"}
Values == InputValues \cup {"generated", "dry_run", "default"}

\* The stretches of an HTML text the regular expressions of the polish tell
\* apart (the strings above are among them):
\*   "marker_summary"  [LLM_PLACEHOLDER: ...finding_summary...]
\*   "marker_risk"     [LLM_PLACEHOLDER: ...finding_risk...]
\*   "ie"              [INSUFFICIENT_EVIDENCE...]
\*   "ie_fenced"       an [INSUFFICIENT_EVIDENCE] marker with ``` inside its name
\*   "fence"           ``` (with json, html or text)
\*   "tvar_known"      one of the seven template variables, [specific data point]
\*   "tvar_other"      another bracket starting with specific/start/end/missing/level
\*   "broken"          >a sentence of more than 20 characters, no punctuation</p
\*   "ds"              one run of two or more spaces
\*   "ds11"            eleven such runs
PolishInputs == {"text", "marker_summary", "marker_risk", "unmapped", "ie", "ie_fenced",
                 "fence", "tvar_known", "tvar_other", "broken", "ds", "ds11"}

\* obj.match(/\[LLM_PLACEHOLDER:\s*([^\]]+)\]/)
IsMarker(v) == v \in {"marker", "unmapped", "marker_summary", "marker_risk"}

\* a scan that lists the marker strings last path first
findPlaceholdersBackwards(doc) ==
    LET Test(f) == IsMarker(doc[f])
        found == SelectSeq([f \in Fields |-> f], Test)
    IN  [k \in 1..Len(found) |-> found[Len(found) + 1 - k]]

\* the paths of the marker strings, in traversal order
findPlaceholders(doc) ==
    LET Test(f) == IsMarker(doc[f])
    IN  SelectSeq([f \in Fields |-> f], Test)

\* a lookup that finds a prompt for every marker
HasPromptForAny(v) == v \in {"marker", "unmapped"}

\* PLACEHOLDER_TO_PROMPT[baseName] and getPrompt(promptId) both succeed
HasPrompt(v) == v = "marker"

setAtPath(doc, f, value) == [doc EXCEPT ![f] = value]

MarkerCount(doc) == Cardinality({f \in Fields : IsMarker(doc[f])})

\* the content of a model response:
\*   valid   the text has the shape its reader needs (a JSON object for the
\*           batch calls, a complete HTML document for the polish call)
\*   fields  batch: the fields present in the JSON object;
\*           polish: the fields whose marker is still in the returned HTML
Content(valid, fields) == [valid |-> valid, fields |-> fields]

\* callLLM in dry run: '[DRY_RUN: ...]' (LLMExecutor), '{}' (BatchLLMExecutor)
DryRunContent == Content(TRUE, {})

\* ---------------------------------------------------------------- options
OptionSet ==
    { o \in [ strategy : {"perPlaceholder", "batch"},
              dryRun : BOOLEAN, apiKey : BOOLEAN,
              groqAdapter : BOOLEAN, useGroq : BOOLEAN,
              skipRefinement : BOOLEAN, usePaidTier : BOOLEAN,
              allowPlaceholders : BOOLEAN,
              model : Models ] :
        \* options no code path reads in the configuration are held fixed
        /\ o.dryRun => (o.apiKey /\ ~o.groqAdapter)
        /\ o.useGroq => o.groqAdapter
        /\ o.strategy = "perPlaceholder" => (~o.skipRefinement /\ o.allowPlaceholders)
        \* model is the resolved this.model; Pipeline.fillNarratives passes
        \* neither model nor usePaidTier
        /\ o.strategy = "batch" => (~o.usePaidTier /\ o.model = MODEL_FALLBACK_ORDER[1]) }

VARIABLES
    options,            \* constructor / pipeline configuration
    reportJson,         \* the document handed to the orchestrator
    filledReport,       \* the working copy the orchestrator writes
    status,             \* per field: how its placeholder was resolved
    generatedContent,   \* batch: the fields of the parsed response
    html,               \* the rendered, then polished, text
    stage,              \* "fill", "render", "polish", "done", "failed"
    fillOutcome,        \* "pending", "returned", "thrown"
    pc,                 \* the next step of the running function
    caller,             \* who awaits the running callLLM
    idx,                \* fillPlaceholders: loop index into placeholders
    currentModel, modelSwitches, fallbackHistory, stats,
    attempt, fallbackAttempted, lastError,   \* locals of the running callLLM
    callSleeps,         \* sleeps of the latest callLLM
    lastRequestSet,         \* lastRequestTime > 0
    timeSinceLastRequest,   \* Date.now() - lastRequestTime
    sincePrevRequest,       \* time since the previous request of this fill began
    reqModel, lastOutcome,  \* the last GenerationAttempt: its model, its outcome
    parseFailures,      \* batch: generation responses parseJSON rejected
    callsDone,          \* callLLM invocations this executor has finished
    onlyRateLimited,    \* every request so far was answered rate-limited
    maxLeft,            \* highest rank any executor of the run fell back from
    text,               \* a text handed to the polish on its own
    polished,           \* the results { html, changes } of polishing it again and again
    nestedInput,        \* a report with an array, { a: { b: [...], c: '...' } }
    nested,             \* the working copy fillPlaceholders writes
    pendingPaths,       \* the placeholders found by the scan and not yet filled
    written,            \* the writes made: placeholder path, target path, output
    invocation,         \* how the pipeline is entered: cli(args) or a Pipeline method
    config,             \* Pipeline.config
    env,                \* process.env: which API keys are set
    cliPc,              \* the stage the command is about to run
    stages,             \* the stages run so far, in order
    sent,               \* the stages that sent a remote generation request
    report,             \* the report a command works on, as validateReport reads it
    validation,         \* the results of validateReport, in order
    result,             \* what the command came to
    exitCode,           \* the exit code of the process, once it has exited
    runStats,           \* Pipeline.stats: is endTime set, is error set, stages.pdf
    loopKind,           \* the class whose callLLM runs on its own
    loopOption,         \* the maxRetries its caller configured
    loopModel,          \* this.currentModel
    loopAttempt,        \* attempt
    loopFallbackAttempted, \* fallbackAttempted
    loopRequests,       \* the requests sent to the primary provider by this call
    loopPc,             \* "request": a request is awaited; "groq": the call of the
                        \* secondary provider is awaited; "ended": callLLM has ended
    loopGroq,           \* this.groqAdapter is set, lastError, the calls of the
                        \* secondary provider, and the error callLLM has thrown
    fixInput,           \* reportJson.fixes.items[0] as the transform built it
    fixFilled,          \* filledReport.fixes.items[0] in each of two runs
    contexts,           \* the contexts each run has passed to callLLM, in order
    fixIdx,             \* the loop index of both runs
    puter,              \* a PuterAdapter and the locals of its generate
    polishOptions,      \* polishHTML on its own: this.dryRun, and whether getPrompt finds
    polishPc,           \* the position in polishHTML
    reply,              \* how its callLLM ended
    working,            \* manualPolishHTML: polished and changes before the return
    lastIndex,          \* brokenSentencePattern.lastIndex, in stretches
    brokenCount         \* brokenCount

docVars  == <<reportJson, filledReport, status, generatedContent, html>>
flowVars == <<stage, fillOutcome, pc, caller, idx>>
execVars == <<currentModel, modelSwitches, fallbackHistory, stats>>
callVars == <<attempt, fallbackAttempted, lastError>>
timeVars == <<lastRequestSet, timeSinceLastRequest, sincePrevRequest>>
histVars == <<callSleeps, reqModel, lastOutcome, parseFailures, callsDone, onlyRateLimited,
              maxLeft>>
polishLocals == <<polishOptions, polishPc, reply, working, lastIndex, brokenCount>>
polishVars == <<text, polished, polishLocals>>
writeVars == <<nestedInput, nested, pendingPaths, written>>
cliVars == <<invocation, config, env, cliPc, stages, sent, report, validation, result,
             exitCode, runStats>>
loopVars == <<loopKind, loopOption, loopModel, loopAttempt, loopFallbackAttempted,
              loopRequests, loopPc, loopGroq>>
contextVars == <<fixInput, fixFilled, contexts, fixIdx>>
pureVars == <<polishVars, writeVars, cliVars, loopVars, contextVars, puter>>
vars == <<options, docVars, flowVars, execVars, callVars, timeVars, histVars, pureVars>>

\* the executor class running in this stage
Executor == IF stage = "fill" /\ options.strategy = "batch"
            THEN "BatchLLMExecutor" ELSE "LLMExecutor"

maxRetries == IF Executor = "BatchLLMExecutor" THEN BatchMaxRetries ELSE LLMMaxRetries

placeholders == findPlaceholders(reportJson)

InitStats == [promptsExecuted |-> 0, errors |-> 0, groqUsed |-> FALSE, fallbacks |-> <<>>]

\* options.model || MODEL_FALLBACK_ORDER[0]
ModelOrFirst(model) == IF model = NoModel THEN MODEL_FALLBACK_ORDER[1] ELSE model

\* a constructor that takes over the pointer of the previous executor
NewExecutorModelShared(model, prev) == IF prev = NoModel THEN ModelOrFirst(model) ELSE prev

\* constructor: this.model = options.model || MODEL_FALLBACK_ORDER[0];
\* this.currentModel = this.model.  prev: the pointer of the previous executor
NewExecutorModel(model, prev) == ModelOrFirst(model)

\* new LLMExecutor(options) / new BatchLLMExecutor(options)
Constructed(m) ==
    /\ currentModel = m
    /\ modelSwitches = 0
    /\ fallbackHistory = <<>>
    /\ stats = InitStats

\* the start of a pipeline run
PipelineInit ==
    /\ options \in OptionSet
    /\ reportJson \in [Fields -> InputValues]
    /\ filledReport = reportJson
    /\ status = [f \in Fields |-> "pending"]
    /\ generatedContent = {}
    /\ html = <<>>
    /\ stage = "fill"
    /\ fillOutcome = "pending"
    /\ pc = "start"
    /\ caller = "none"
    /\ idx = 1
    /\ Constructed(NewExecutorModel(options.model, NoModel))
    /\ attempt = 0 /\ fallbackAttempted = FALSE /\ lastError = "none" /\ callSleeps = 0
    /\ lastRequestSet = FALSE /\ timeSinceLastRequest = 0 /\ sincePrevRequest = 0
    /\ reqModel = NoModel /\ lastOutcome = "none" /\ parseFailures = 0
    /\ callsDone = 0 /\ onlyRateLimited = TRUE /\ maxLeft = 0

\* callLLM has not ended
NoReply == [kind |-> "none", doctype |-> FALSE, closing |-> FALSE, html |-> <<>>]

\* polishHTML is not run step by step
NoPolishCall ==
    /\ polishOptions = [dryRun |-> FALSE, found |-> FALSE]
    /\ polishPc = "idle"
    /\ reply = NoReply
    /\ working = [html |-> <<>>, changes |-> <<>>]
    /\ lastIndex = 0
    /\ brokenCount = 0

\* no text is polished on its own
NoPolish == text = <<>> /\ polished = <<>> /\ NoPolishCall

\* the values of a nested report: a string, or an array of values
Str(v) == [kind |-> "string", value |-> v]
Arr(items) == [kind |-> "array", value |-> items]

\* no nested report is filled
NoWrite ==
    /\ nestedInput = [a |-> [b |-> Arr(<<>>), c |-> Str("text")]]
    /\ nested = nestedInput
    /\ pendingPaths = <<>>
    /\ written = <<>>

\* a report without markers
NoReport == [schemaValid |-> TRUE, markers |-> {}, dangling |-> FALSE, bleedMismatch |-> FALSE]

\* the constructor's stats: { startTime: null, endTime: null, stages: {} }
NoStats == [endTime |-> FALSE, error |-> FALSE, pdf |-> "none"]

\* no command is run
NoCli ==
    /\ invocation = [entry |-> "api", command |-> "full", argsOk |-> TRUE]
    /\ config = [dryRun |-> FALSE, skipLLM |-> FALSE, allowPlaceholders |-> FALSE,
                 useGroq |-> FALSE, skipHtmlPolish |-> FALSE]
    /\ env = [apiKey |-> FALSE, groqKey |-> FALSE]
    /\ cliPc = "start"
    /\ stages = <<>>
    /\ sent = {}
    /\ report = NoReport
    /\ validation = <<>>
    /\ result = "none"
    /\ exitCode = <<>>
    /\ runStats = NoStats

\* no callLLM runs on its own
NoLoop ==
    /\ loopKind = "LLMExecutor"
    /\ loopOption = 0
    /\ loopModel = MODEL_FALLBACK_ORDER[1]
    /\ loopAttempt = 0
    /\ loopFallbackAttempted = FALSE
    /\ loopRequests = 0
    /\ loopPc = "ended"
    /\ loopGroq = [adapter |-> FALSE, lastError |-> "none", calls |-> 0, thrown |-> "none"]

\* the runs compared
Runs == {1, 2}

\* PUTER_FALLBACK_ORDER has four models
NumPuterModels == 4

\* const maxRetries = options.maxRetries || 3
PuterDefaultRetries == 3

\* no PuterAdapter generates
NoPuter ==
    puter = [model |-> 1, option |-> 0, attempt |-> 0, lastError |-> "none",
             sleeps |-> 0, pc |-> "request", result |-> "none"]

\* no two runs are compared
NoContext ==
    /\ fixInput = [problem |-> "known", solution |-> "known", basis |-> "known",
                   quick_win |-> FALSE]
    /\ fixFilled = [r \in Runs |-> fixInput]
    /\ contexts = [r \in Runs |-> <<>>]
    /\ fixIdx = 1

Init ==
    /\ PipelineInit
    /\ NoPolish
    /\ NoWrite
    /\ NoCli
    /\ NoLoop
    /\ NoContext
    /\ NoPuter


\* ------------------------------------------------------ document operations
\* Mustache.render(template, reportJson): the strings of the report, in order
render(doc) == [f \in Fields |-> doc[f]]

\* one entry of the change list
Change(type, count) == [type |-> type, count |-> count]

NoChanges == [type |-> "no_changes"]

\* (polished.match(re) || []).length, re matching the stretches in kinds;
\* a "ds11" stretch holds eleven matches
Matches(h, kinds) ==
    Cardinality({i \in DOMAIN h : h[i] \in kinds})
    + (IF "ds11" \in kinds
       THEN WhitespaceThreshold * Cardinality({i \in DOMAIN h : h[i] = "ds11"}) ELSE 0)

\* polished.replace(re, to): every stretch of kind from becomes to
Replace(h, from, to) == [i \in DOMAIN h |-> IF h[i] = from THEN to ELSE h[i]]

\* polished.replace(/```(?:json|html|text)?/g, ''): the fences go, also the one
\* inside a marker name
RemoveMarkdown(h) ==
    LET Kept(v) == v # "fence"
    IN  Replace(SelectSeq(h, Kept), "ie_fenced", "ie")

\* a polish with one default sentence for every field
DefaultSentenceGeneric(v) == "default"

\* the default sentence chosen by field.includes(...)
DefaultSentence(v) ==
    CASE v = "marker_summary" -> "default_summary"
      [] v = "marker_risk"    -> "default_risk"
      [] OTHER                -> "default"

\* one step of manualPolishHTML: its change entry when it matched anything
Step(type, n) == IF n > 0 THEN <<Change(type, n)>> ELSE <<>>

\* manualPolishHTML: steps 1 to 6 in order, then the no_changes entry
manualPolishHTML(h) ==
    LET n1 == Matches(h, {"ie"})
        p1 == Replace(h, "ie", "dna")
        n2 == Matches(p1, {"fence", "ie_fenced"})
        p2 == RemoveMarkdown(p1)
        n3 == Matches(p2, {"marker", "unmapped", "marker_summary", "marker_risk"})
        p3 == [i \in DOMAIN p2 |-> IF IsMarker(p2[i]) THEN DefaultSentence(p2[i]) ELSE p2[i]]
        n4 == Matches(p3, {"tvar_known", "tvar_other"})
        p4 == Replace(p3, "tvar_known", "tvar_text")
        n5 == Matches(p4, {"broken"})
        p5 == Replace(p4, "broken", "punctuated")
        n6 == Matches(p5, {"ds", "ds11"})
        p6 == IF n6 > WhitespaceThreshold
              THEN Replace(Replace(p5, "ds", "space"), "ds11", "space") ELSE p5
        changes == Step("fix_insufficient_evidence", n1) \o Step("remove_markdown", n2)
                   \o Step("fix_placeholders", n3) \o Step("fix_template_vars", n4)
                   \o Step("fix_punctuation", n5)
                   \o (IF n6 > WhitespaceThreshold THEN Step("fix_whitespace", n6) ELSE <<>>)
    IN  [html |-> p6, changes |-> IF changes = <<>> THEN <<NoChanges>> ELSE changes]

\* the model's HTML: the markers it kept stay, the others are rewritten
PolishedByModel(h, kept) ==
    [f \in DOMAIN h |-> IF IsMarker(h[f]) /\ f \notin kept THEN "generated" ELSE h[f]]

\* the fixed field -> path table: a generated field overwrites its path,
\* a marker outside the table is never written
applyGeneratedContent(doc, generated) ==
    [f \in Fields |-> IF f \in generated /\ doc[f] # "unmapped" THEN "generated" ELSE doc[f]]

BatchStatus(doc, generated) ==
    [f \in Fields |-> IF f \in generated /\ doc[f] # "unmapped" THEN "filled"
                      ELSE IF IsMarker(doc[f]) THEN "missing" ELSE "pending"]

\* a catch that writes a default sentence over the marker
FillCatchDefault(doc, f) == setAtPath(doc, f, "default")

\* fillPlaceholders, catch (err): the error is logged, nothing is written
FillCatch(doc, f) == doc

\* a write that always lands on the first field
FillWriteFirst(doc, f) == setAtPath(doc, 1, IF options.dryRun THEN "dry_run" ELSE "generated")

\* fillPlaceholders, after callLLM returned: the output is written at the path
FillWrite(doc, f) == setAtPath(doc, f, IF options.dryRun THEN "dry_run" ELSE "generated")

\* ------------------------------------------------- what follows a callLLM
\* c: the awaiting function; ok: callLLM returned (content) or threw;
\* ts, tp: the elapsed times when it ends

\* a catch that ends the loop: the placeholders after i are never tried
IndexAfterCatchAbort(i, n) == n + 1

\* the catch ends the loop body of placeholder i of n: i++
IndexAfterCatch(i, n) == i + 1

\* a working document that is the caller's object: const filledReport = reportJson
CallerDocumentShared(original, copy) == copy

\* JSON.parse(JSON.stringify(reportJson)): the working document shares no
\* object with the caller's, which is after a write to it what it was before
CallerDocument(original, copy) == original

ContinueFill(ok, ts, tp) ==
    LET f == placeholders[idx] IN
    /\ filledReport' = IF ok THEN FillWrite(filledReport, f) ELSE FillCatch(filledReport, f)
    /\ status' = [status EXCEPT ![f] = IF ok THEN "filled" ELSE "failed"]
    /\ idx' = IF ok THEN idx + 1 ELSE IndexAfterCatch(idx, Len(placeholders))
    /\ pc' = "fill_loop"
    /\ timeSinceLastRequest' = ts /\ sincePrevRequest' = tp
    /\ reportJson' = CallerDocument(reportJson, filledReport')
    /\ UNCHANGED <<generatedContent, html, stage, fillOutcome>>

\* fillAllNarratives, stage 3 and return
BatchReturn(generated) ==
    /\ generatedContent' = generated
    /\ filledReport' = applyGeneratedContent(reportJson, generated)
    /\ reportJson' = CallerDocument(reportJson, filledReport')
    /\ status' = BatchStatus(reportJson, generated)
    /\ fillOutcome' = "returned"
    /\ stage' = "render"
    /\ pc' = "validate"

\* an error leaves fillAllNarratives, Pipeline.fillNarratives and reaches the
\* catch of Pipeline.run: { success: false }
BatchThrow ==
    /\ fillOutcome' = "thrown"
    /\ stage' = "failed"
    /\ pc' = "end"
    /\ UNCHANGED <<reportJson, generatedContent, filledReport, status>>

\* parseJSON of the generation response; invalid JSON: throw new Error(...)
GenerationParsed(content) == content.valid

\* a fillAllNarratives that refines whatever skipRefinement says
ContinueGenerationRefining(ok, content) ==
    /\ IF ok /\ GenerationParsed(content)
       THEN /\ generatedContent' = content.fields
            /\ pc' = "refine_start"
            /\ UNCHANGED <<reportJson, filledReport, status, fillOutcome, stage>>
       ELSE BatchThrow
    /\ UNCHANGED <<html, idx, timeSinceLastRequest, sincePrevRequest>>

\* fillAllNarratives after the generation call: parseJSON, then stage 2
\* unless this.skipRefinement
ContinueGeneration(ok, content) ==
    /\ IF ok /\ GenerationParsed(content)
       THEN IF options.skipRefinement
            THEN BatchReturn(content.fields)
            ELSE /\ generatedContent' = content.fields
                 /\ pc' = "refine_start"
                 /\ UNCHANGED <<reportJson, filledReport, status, fillOutcome, stage>>
       ELSE BatchThrow
    /\ UNCHANGED <<html, idx, timeSinceLastRequest, sincePrevRequest>>

ContinueRefinement(ok, content) ==
    /\ IF ok
       THEN BatchReturn(IF content.valid THEN content.fields ELSE generatedContent)
       ELSE BatchThrow
    /\ UNCHANGED <<html, idx, timeSinceLastRequest, sincePrevRequest>>

\* polishHTML after callLLM: accept a complete HTML document, else manual
PolishResult(h, ok, content) ==
    IF ok /\ content.valid THEN PolishedByModel(h, content.fields)
    ELSE manualPolishHTML(h).html

ContinuePolish(ok, content) ==
    /\ html' = PolishResult(html, ok, content)
    /\ stage' = "done"
    /\ pc' = "end"
    /\ UNCHANGED <<reportJson, filledReport, status, generatedContent, fillOutcome, idx,
                   timeSinceLastRequest, sincePrevRequest>>

\* the locals of callLLM before the retry loop, and after callLLM has ended
NoCall ==
    /\ attempt' = 0 /\ fallbackAttempted' = FALSE /\ lastError' = "none"

\* callLLM ends: control returns to the awaiting function
\* n: the calls this executor finished before
Finish(c, ok, content, ts, tp, n) ==
    /\ callsDone' = n + 1
    /\ caller' = "none"
    /\ NoCall
    /\ CASE c = "fillPlaceholders" -> ContinueFill(ok, ts, tp)
         [] c = "generation"       -> ContinueGeneration(ok, content)
         [] c = "refinement"       -> ContinueRefinement(ok, content)
         [] c = "polishHTML"       -> ContinuePolish(ok, content)

\* callLLM is suspended at an await
Pending(c, nextPc, ts, tp, n) ==
    /\ caller' = c
    /\ callsDone' = n
    /\ pc' = nextPc
    /\ timeSinceLastRequest' = ts /\ sincePrevRequest' = tp
    /\ UNCHANGED <<docVars, stage, fillOutcome, idx>>

\* callLLM up to its first await
EnterCallLLM(c, ts, tp, n) ==
    /\ NoCall
    /\ callSleeps' = 0
    /\ IF options.dryRun
       THEN Finish(c, TRUE, DryRunContent, ts, tp, n)
       ELSE IF options.useGroq /\ options.groqAdapter
       THEN Pending(c, "groq", ts, tp, n)
       ELSE IF ~options.apiKey
       THEN Finish(c, FALSE, DryRunContent, ts, tp, n)
       ELSE Pending(c, "fetch", ts, tp, n)


\* ------------------------------------------------------------ fallback
\* a fallback that wraps around to the head of the chain
fallbackToNextModelWrap(m) ==
    IF getNextFallbackModel(m) = NoModel THEN MODEL_FALLBACK_ORDER[1]
    ELSE getNextFallbackModel(m)

\* fallbackToNextModel: the new currentModel, NoModel when the chain is used up
fallbackToNextModel(m) == getNextFallbackModel(m)

\* LLMExecutor.callLLM, catch (err): what the retry loop does next
\*   "fallback"  move to the next model, attempt = -1, continue
\*   "wait"      sleep(parseRetryAfter(err)), continue
\*   "retry"     sleep(5000 * (attempt + 1)), continue
\*   "break"     leave the loop
\* max: this.maxRetries
LLMCatchWith(err, att, fbAttempted, canFallback, max) ==
    IF isRateLimitError(err) /\ ~fbAttempted
    THEN IF canFallback THEN "fallback" ELSE "wait"
    ELSE IF isRetryable(err) /\ att < max THEN "retry" ELSE "break"

LLMCatch(err, att, fbAttempted, canFallback) ==
    LLMCatchWith(err, att, fbAttempted, canFallback, LLMMaxRetries)

\* BatchLLMExecutor.callLLM, catch (err)
BatchCatchWith(err, att, fbAttempted, canFallback, max) ==
    IF isRateLimitError(err)
    THEN IF ~fbAttempted /\ canFallback THEN "fallback" ELSE "wait"
    ELSE IF isRetryable(err) /\ att < max THEN "retry" ELSE "break"

BatchCatch(err, att, fbAttempted, canFallback) ==
    BatchCatchWith(err, att, fbAttempted, canFallback, BatchMaxRetries)

Catch(err, att, fbAttempted, canFallback) ==
    IF Executor = "BatchLLMExecutor"
    THEN BatchCatch(err, att, fbAttempted, canFallback)
    ELSE LLMCatch(err, att, fbAttempted, canFallback)

\* a retry delay that does not grow with the attempt
RetryDelayConstant(att) == 1

\* 5000 * (attempt + 1) ms, in ticks
RetryDelay(att) == att + 1

\* a fallback branch that continues without resetting the counter
AttemptAfterFallbackKept(att) == att + 1

\* attempt after the fallback branch: attempt = -1, then attempt++ of the loop
AttemptAfterFallback(att) == 0

\* fillPlaceholders: the rate-limiting wait before a call
RateLimitWait(set, since, requestDelayMs) ==
    IF set /\ since < requestDelayMs THEN requestDelayMs - since ELSE 0

\* the elapsed times exist only while fillPlaceholders runs
T(x) == IF caller = "fillPlaceholders" THEN x ELSE 0

\* the responses a backend may give to the awaiting function
ResponseContents(c) ==
    CASE c = "fillPlaceholders" -> {Content(TRUE, {})}
      [] c = "polishHTML" ->
            {Content(FALSE, {})} \cup
            {Content(TRUE, k) : k \in SUBSET {f \in DOMAIN html : IsMarker(html[f])}}
      [] OTHER -> {Content(FALSE, {})} \cup {Content(TRUE, g) : g \in SUBSET Fields}

\* --------------------------------------------------------------- actions
\* fillPlaceholders: deep clone, scan, lastRequestTime = 0
FillPlaceholdersEnter ==
    /\ pc = "start" /\ options.strategy = "perPlaceholder"
    /\ filledReport' = reportJson
    /\ idx' = 1
    /\ pc' = "fill_loop"
    /\ lastRequestSet' = FALSE /\ timeSinceLastRequest' = 0 /\ sincePrevRequest' = 0
    /\ UNCHANGED <<options, reportJson, status, generatedContent, html, stage, fillOutcome,
                   caller, execVars, callVars, histVars>>

\* loop body, no prompt mapping or no registry entry: warn and continue
FillSkip ==
    /\ pc = "fill_loop" /\ idx <= Len(placeholders)
    /\ ~HasPrompt(reportJson[placeholders[idx]])
    /\ status' = [status EXCEPT ![placeholders[idx]] = "skipped"]
    /\ idx' = idx + 1
    /\ UNCHANGED <<options, reportJson, filledReport, generatedContent, html, stage,
                   fillOutcome, pc, caller, execVars, callVars, timeVars, histVars>>

\* loop body: rate-limiting wait, lastRequestTime = Date.now(), callLLM
FillCall ==
    /\ pc = "fill_loop" /\ idx <= Len(placeholders)
    /\ HasPrompt(reportJson[placeholders[idx]])
    /\ LET requestDelayMs == getModelDelay(currentModel, options.usePaidTier)
           waitTime == RateLimitWait(lastRequestSet, timeSinceLastRequest, requestDelayMs)
       IN  /\ lastRequestSet' = TRUE
           /\ EnterCallLLM("fillPlaceholders", 0, Elapse(sincePrevRequest, waitTime), callsDone)
    /\ UNCHANGED <<options, execVars, reqModel, lastOutcome, parseFailures, onlyRateLimited,
                   maxLeft>>

\* the loop is over: return filledReport
FillReturn ==
    /\ pc = "fill_loop" /\ idx > Len(placeholders)
    /\ fillOutcome' = "returned"
    /\ stage' = "render"
    /\ pc' = "validate"
    /\ lastRequestSet' = FALSE /\ timeSinceLastRequest' = 0 /\ sincePrevRequest' = 0
    /\ UNCHANGED <<options, docVars, caller, idx, execVars, callVars, histVars>>

\* fillAllNarratives: build the master prompt, call the model
FillAllNarrativesEnter ==
    /\ pc = "start" /\ options.strategy = "batch"
    /\ EnterCallLLM("generation", 0, 0, callsDone)
    /\ UNCHANGED <<options, execVars, lastRequestSet, reqModel, lastOutcome, parseFailures,
                   onlyRateLimited, maxLeft>>

\* fillAllNarratives, stage 2: build the refinement prompt, call the model
RefineStart ==
    /\ pc = "refine_start"
    /\ EnterCallLLM("refinement", 0, 0, callsDone)
    /\ UNCHANGED <<options, execVars, lastRequestSet, reqModel, lastOutcome, parseFailures,
                   onlyRateLimited, maxLeft>>

\* the request to currentModel is answered with a 200
FetchSuccess(content, lat) ==
    /\ pc = "fetch"
    /\ content \in ResponseContents(caller)
    /\ reqModel' = currentModel /\ lastOutcome' = "success"
    /\ parseFailures' = IF caller = "generation" /\ ~GenerationParsed(content)
                        THEN parseFailures + 1 ELSE parseFailures
    /\ onlyRateLimited' = FALSE
    /\ stats' = [stats EXCEPT !.promptsExecuted = @ + 1]
    /\ Finish(caller, TRUE, content, T(Elapse(timeSinceLastRequest, lat)), T(Elapse(0, lat)),
              callsDone)
    /\ UNCHANGED <<options, currentModel, modelSwitches, fallbackHistory, callSleeps,
                   lastRequestSet, maxLeft>>

\* the loop is left without a result: Groq as the last resort, else throw
AfterLoop(err, ts, tp) ==
    IF options.groqAdapter /\ isRateLimitError(err)
    THEN /\ Pending(caller, "groq", ts, tp, callsDone)
         /\ lastError' = err
         /\ UNCHANGED <<attempt, fallbackAttempted, stats>>
    ELSE /\ stats' = IF Executor = "LLMExecutor"
                     THEN [stats EXCEPT !.errors = @ + 1] ELSE stats
         /\ Finish(caller, FALSE, DryRunContent, ts, tp, callsDone)

\* the request to currentModel fails with err (ra: its retry-after, 0 = none)
\* a fallbackToNextModel that pushes to this.fallbackHistory only
RecordFallbackInHistoryOnly(st, executor, from, to) == st

\* LLMExecutor.fallbackToNextModel: this.stats.fallbacks.push(fallbackInfo);
\* the stats of a BatchLLMExecutor have no fallbacks
RecordFallback(st, executor, from, to) ==
    IF executor = "LLMExecutor"
    THEN [st EXCEPT !.fallbacks = Append(@, <<from, to>>)]
    ELSE st

OnError(err, ra, lat) ==
    LET next == fallbackToNextModel(currentModel)
        d    == Catch(err, attempt, fallbackAttempted, next # NoModel)
        slept == IF d = "wait" THEN parseRetryAfter(ra)
                 ELSE IF d = "retry" THEN RetryDelay(attempt) ELSE 0
        ts   == T(Elapse(timeSinceLastRequest, lat + slept))
        tp   == T(Elapse(0, lat + slept))
    IN
    /\ pc = "fetch"
    /\ reqModel' = currentModel /\ lastOutcome' = err
    /\ onlyRateLimited' = (onlyRateLimited /\ isRateLimitError(err))
    /\ callSleeps' = IF d \in {"wait", "retry"} THEN callSleeps + 1 ELSE callSleeps
    /\ IF d = "fallback"
       THEN /\ currentModel' = next
            /\ modelSwitches' = modelSwitches + 1
            /\ fallbackHistory' = Append(fallbackHistory, <<currentModel, next>>)
            /\ maxLeft' = Max(maxLeft, currentModel)
            /\ lastError' = err
            /\ fallbackAttempted' = TRUE
            /\ attempt' = AttemptAfterFallback(attempt)
            /\ Pending(caller, "fetch", ts, tp, callsDone)
            /\ stats' = RecordFallback(stats, Executor, currentModel, next)
       ELSE /\ UNCHANGED <<currentModel, modelSwitches, fallbackHistory, maxLeft>>
            /\ IF d # "break" /\ attempt + 1 <= maxRetries
               THEN \* continue: attempt++ and the loop condition holds
                    /\ lastError' = err
                    /\ attempt' = attempt + 1
                    /\ UNCHANGED <<fallbackAttempted, stats>>
                    /\ Pending(caller, "fetch", ts, tp, callsDone)
               ELSE \* break, or continue with the attempts used up
                    AfterLoop(err, ts, tp)
    /\ UNCHANGED <<options, lastRequestSet, parseFailures>>

FetchRateLimited(ra, lat) == OnError("rateLimited", ra, lat)

FetchTransient(lat) == OnError("transient", 0, lat)

FetchFatal(lat) == OnError("fatal", 0, lat)

\* groqAdapter.generate returns
GroqSuccess(content, lat) ==
    /\ pc = "groq"
    /\ content \in ResponseContents(caller)
    /\ stats' = [stats EXCEPT !.promptsExecuted = @ + 1, !.groqUsed = TRUE]
    /\ parseFailures' = IF caller = "generation" /\ ~GenerationParsed(content)
                        THEN parseFailures + 1 ELSE parseFailures
    /\ Finish(caller, TRUE, content, T(Elapse(timeSinceLastRequest, lat)),
              T(Elapse(sincePrevRequest, lat)), callsDone)
    /\ UNCHANGED <<options, currentModel, modelSwitches, fallbackHistory, callSleeps,
                   lastRequestSet, reqModel, lastOutcome, onlyRateLimited, maxLeft>>

\* groqAdapter.generate throws: in Groq-only mode the error leaves callLLM as
\* it is; as the last resort it is caught and the Gemini error is recorded
\* (LLMExecutor) and thrown
GroqFailure(lat) ==
    /\ pc = "groq"
    /\ stats' = IF Executor = "LLMExecutor" /\ ~options.useGroq
                THEN [stats EXCEPT !.errors = @ + 1] ELSE stats
    /\ Finish(caller, FALSE, DryRunContent, T(Elapse(timeSinceLastRequest, lat)),
              T(Elapse(sincePrevRequest, lat)), callsDone)
    /\ UNCHANGED <<options, currentModel, modelSwitches, fallbackHistory, callSleeps,
                   lastRequestSet, reqModel, lastOutcome, parseFailures, onlyRateLimited,
                   maxLeft>>

\* Pipeline.validateFinal (the batch strategy runs inside Pipeline.run) and
\* Pipeline.render
validateFinalThrows(doc) ==
    options.strategy = "batch" /\ ~options.allowPlaceholders /\ MarkerCount(doc) > 0

ValidateRender ==
    /\ pc = "validate"
    /\ IF validateFinalThrows(filledReport)
       THEN /\ stage' = "failed" /\ pc' = "end" /\ html' = html
       ELSE /\ stage' = "polish" /\ pc' = "polish_start" /\ html' = render(filledReport)
    /\ UNCHANGED <<options, reportJson, filledReport, status, generatedContent, fillOutcome,
                   caller, idx, execVars, callVars, timeVars, histVars>>

\* Pipeline.polishHTMLPass: new LLMExecutor({ apiKey, groqApiKey, dryRun,
\* verbose, useGroq }), no model among its options; executor.polishHTML(html)
\* found: getPrompt('html_polish_v1') finds the prompt in the registry
PolishStart(found) ==
    /\ pc = "polish_start"
    /\ currentModel' = NewExecutorModel(NoModel, currentModel)
    /\ modelSwitches' = 0
    /\ fallbackHistory' = <<>>
    /\ stats' = InitStats
    \* the record of the last attempt belongs to the executor: it starts empty
    /\ reqModel' = NoModel /\ lastOutcome' = "none"
    /\ onlyRateLimited' = TRUE
    /\ IF options.dryRun \/ ~found
       THEN /\ html' = IF options.dryRun THEN html ELSE manualPolishHTML(html).html
            /\ stage' = "done"
            /\ pc' = "end"
            /\ callsDone' = 0
            /\ NoCall
            /\ callSleeps' = 0
            /\ UNCHANGED <<reportJson, filledReport, status, generatedContent, fillOutcome,
                           caller, idx, timeSinceLastRequest, sincePrevRequest>>
       ELSE EnterCallLLM("polishHTML", 0, 0, 0)
    /\ UNCHANGED <<options, lastRequestSet, parseFailures, maxLeft>>

\* the durations a request may take; only fillPlaceholders reads the clock, so
\* the durations of the other callers' requests are not told apart
Latencies == IF caller = "fillPlaceholders" THEN 0..MaxLatency ELSE {0}
RetryAfters == 0..MaxRetryAfter
AllContents == {Content(v, g) : v \in BOOLEAN, g \in SUBSET Fields}

Next ==
    \/ FillPlaceholdersEnter /\ UNCHANGED pureVars
    \/ FillSkip /\ UNCHANGED pureVars
    \/ FillCall /\ UNCHANGED pureVars
    \/ FillReturn /\ UNCHANGED pureVars
    \/ FillAllNarrativesEnter /\ UNCHANGED pureVars
    \/ RefineStart /\ UNCHANGED pureVars
    \/ \E content \in AllContents, lat \in Latencies : FetchSuccess(content, lat) /\ UNCHANGED pureVars
    \/ \E ra \in RetryAfters, lat \in Latencies : FetchRateLimited(ra, lat) /\ UNCHANGED pureVars
    \/ \E lat \in Latencies : FetchTransient(lat) /\ UNCHANGED pureVars
    \/ \E lat \in Latencies : FetchFatal(lat) /\ UNCHANGED pureVars
    \/ \E content \in AllContents, lat \in Latencies : GroqSuccess(content, lat) /\ UNCHANGED pureVars
    \/ \E lat \in Latencies : GroqFailure(lat) /\ UNCHANGED pureVars
    \/ ValidateRender /\ UNCHANGED pureVars
    \/ \E found \in BOOLEAN : PolishStart(found) /\ UNCHANGED pureVars

Spec == Init /\ [][Next]_vars

\* ------------------------------------------- the polish applied on its own
Texts == UNION {[1..n -> PolishInputs] : n \in 0..MaxTextLen}

\* no pipeline runs: its variables stay as one run starts
NoPipeline ==
    /\ PipelineInit
    /\ options = [strategy |-> "batch", dryRun |-> FALSE, apiKey |-> FALSE,
                  groqAdapter |-> FALSE, useGroq |-> FALSE, skipRefinement |-> FALSE,
                  usePaidTier |-> FALSE, allowPlaceholders |-> FALSE,
                  model |-> MODEL_FALLBACK_ORDER[1]]
    /\ reportJson = [f \in Fields |-> "text"]

pipelineVars == <<options, docVars, flowVars, execVars, callVars, timeVars, histVars>>

nonPolishVars == <<pipelineVars, writeVars, cliVars, loopVars, contextVars, puter>>
nonWriteVars == <<pipelineVars, polishVars, cliVars, loopVars, contextVars, puter>>
nonCliVars == <<pipelineVars, polishVars, writeVars, loopVars, contextVars, puter>>
nonLoopVars == <<pipelineVars, polishVars, writeVars, cliVars, contextVars, puter>>
nonContextVars == <<pipelineVars, polishVars, writeVars, cliVars, loopVars, puter>>
nonPuterVars == <<pipelineVars, polishVars, writeVars, cliVars, loopVars, contextVars>>

PolishInit ==
    /\ NoPipeline
    /\ NoWrite
    /\ NoCli
    /\ NoLoop
    /\ NoContext
    /\ NoPuter
    /\ text \in Texts
    /\ polished = <<>>
    /\ NoPolishCall

\* polishHTML(text) whose callLLM throws: catch (err), manualPolishHTML(html)
PolishFallback ==
    /\ polished = <<>>
    /\ polished' = <<manualPolishHTML(text)>>
    /\ UNCHANGED <<nonPolishVars, text, polishLocals>>

\* manualPolishHTML applied to the html it returned
PolishAgain ==
    /\ Len(polished) = 1
    /\ polished' = Append(polished, manualPolishHTML(polished[1].html))
    /\ UNCHANGED <<nonPolishVars, text, polishLocals>>

PolishNext == PolishFallback \/ PolishAgain

PolishSpec == PolishInit /\ [][PolishNext]_vars

TypeOK ==
    /\ options \in OptionSet
    /\ filledReport \in [Fields -> Values]
    /\ currentModel \in Models
    /\ attempt \in 0..(BatchMaxRetries + 1)
    /\ timeSinceLastRequest \in 0..MaxElapsed
    /\ sincePrevRequest \in 0..MaxElapsed


\* ================================================================ claims
\* the models the executor has fallen back from
Left(history) == {history[k][1] : k \in DOMAIN history}

\* a request is about to be sent to currentModel
Requesting == pc = "fetch"

\* the step is a request answered rate-limited
RateLimitedStep == Requesting /\ lastOutcome' = "rateLimited"

\* C1: after the fill and polishHTML, the polished text holds no marker
C1_NoMarkerAfterPolish == stage = "done" => MarkerCount(html) = 0

\* C2: both orchestrator entry points return a document, whatever the calls do
C2_FillAlwaysReturns == fillOutcome # "thrown"

Unresolved == {"failed", "skipped", "missing"}

C4_FallbackMonotone ==
    [][ /\ pc # "polish_start" => currentModel' >= currentModel
        /\ Requesting' => currentModel' \notin Left(fallbackHistory') ]_vars

C4_Witness ==
    /\ Len(fallbackHistory) >= 2
    /\ reqModel = NumModels
    /\ lastOutcome = "success"

\* every request of the executor so far was answered rate-limited
AlwaysRateLimited == onlyRateLimited /\ reqModel # NoModel

\* the models after the one the executor starts on
ChainAhead == NumModels - options.model

\* C5: against a backend that always answers rate-limited, a per-placeholder
\* run that makes at least one callLLM per model left in the chain records one
\* transition per model left and sleeps at least once on the last model
C5_AllTransitionsThenSleep ==
    (options.strategy = "perPlaceholder" /\ pc = "validate" /\ AlwaysRateLimited
        /\ callsDone >= ChainAhead) =>
        (modelSwitches = ChainAhead /\ currentModel = NumModels /\ callSleeps >= 1)

\* C6: a rate-limited answer from the last model of the chain makes callLLM
\* sleep and, while attempts remain, send the request again to that model
C6_WaitOnLastModel ==
    [][ (RateLimitedStep /\ getNextFallbackModel(currentModel) = NoModel) =>
            /\ callSleeps' = callSleeps + 1
            /\ attempt < maxRetries => (Requesting' /\ currentModel' = currentModel) ]_vars

\* what a rate-limited answer does when callLLM falls back
FallsBack ==
    /\ modelSwitches' = modelSwitches + 1
    /\ currentModel' = getNextFallbackModel(currentModel)
    /\ callSleeps' = callSleeps
    /\ Requesting'
    /\ maxRetries - attempt' >= maxRetries - attempt

C8_RequestSpacing ==
    (Requesting /\ caller = "fillPlaceholders" /\ reqModel = currentModel) =>
        sincePrevRequest >= getModelDelay(currentModel, options.usePaidTier)

\* C9: an invalid generation response is retried once, and a second one
\* returns the input document instead of raising
C9_ParseFailureRetried ==
    /\ parseFailures = 1 => (fillOutcome = "pending" /\ caller = "generation")
    /\ parseFailures >= 2 => (fillOutcome = "returned" /\ filledReport = reportJson)

\* C10 as stated: no stage sends a request to a model an earlier stage of the
\* run fell back from, or to a higher-ranked one
C10_PointerSharedByRun == Requesting => currentModel > maxLeft

\* C10 amended: the pointer belongs to the executor of a stage; it only moves
\* forward inside the stage, and the polish stage's new executor starts again
\* from the head of the chain
C10_PointerPerStage ==
    [][ /\ pc # "polish_start" => currentModel' >= currentModel
        /\ pc = "polish_start" => currentModel' = MODEL_FALLBACK_ORDER[1] ]_vars

C10_Witness ==
    /\ stage = "polish" /\ Requesting
    /\ currentModel <= maxLeft

\* ------------------------------------------- the commands and their stages
\* the fields of a report that may hold a marker: the two that the business
\* rules 4 and 5 read, and any other narrative
MarkerFields == {"executive_summary_body", "math_defender_text", "narrative"}

\* a report: does it fit the schema, which fields hold a marker, does a string
\* elsewhere hold '[LLM_PLACEHOLDER' with no name or closing bracket after it,
\* does the bleed total differ from the sum of its breakdown
Drafts == [schemaValid : BOOLEAN, markers : SUBSET MarkerFields, dangling : BOOLEAN,
           bleedMismatch : BOOLEAN]

\* a scan with the pattern of LLMExecutor.findPlaceholders, which needs the
\* name and the closing bracket
findUnresolvedPlaceholdersMatched(r) == r.markers

\* findUnresolvedPlaceholders: the strings with obj.includes('[LLM_PLACEHOLDER')
findUnresolvedPlaceholders(r) ==
    r.markers \cup (IF r.dangling THEN {"dangling"} ELSE {})

\* validateBusinessRules: the rules that are errors (rules 2 and 3 only warn)
validateBusinessRules(r) ==
    (IF r.bleedMismatch THEN {"bleed_sum_mismatch"} ELSE {})
    \cup (IF "executive_summary_body" \in r.markers \/ "math_defender_text" \in r.markers
          THEN {"unresolved_placeholder"} ELSE {})

\* validateReport(reportJson, { allowPlaceholders, strictBusinessRules })
validateReport(r, allowPlaceholders, strictBusinessRules) ==
    LET schema == IF r.schemaValid THEN {} ELSE {"schema"}
        found == findUnresolvedPlaceholders(r)
        placeholder == IF ~allowPlaceholders /\ found # {} THEN {"placeholder"} ELSE {}
        business == IF strictBusinessRules THEN validateBusinessRules(r) ELSE {}
    IN  [valid |-> schema \cup placeholder \cup business = {},
         errors |-> schema \cup placeholder \cup business,
         placeholders |-> found,
         allowPlaceholders |-> allowPlaceholders,
         report |-> r]

CliCommands == {"help", "generate", "extract", "transform", "validate", "render", "full",
                "unknown"}

\* cli(args), or Pipeline.generate / Pipeline.run called by a program
Invocations ==
    { [entry |-> "cli", command |-> c, argsOk |-> ok] : c \in CliCommands, ok \in BOOLEAN }
    \cup { [entry |-> "api", command |-> c, argsOk |-> TRUE] : c \in {"generate", "full"} }

\* cli builds the Pipeline from its flags: skipPDF, useGroq, skipRefinement,
\* dryRun, verbose; a program passes any configuration
Configs(entry) ==
    { c \in [dryRun : BOOLEAN, skipLLM : BOOLEAN, allowPlaceholders : BOOLEAN,
             useGroq : BOOLEAN, skipHtmlPolish : BOOLEAN] :
        entry = "cli" => (~c.allowPlaceholders /\ ~c.skipHtmlPolish) }

CliInit ==
    /\ NoPipeline
    /\ NoPolish
    /\ NoWrite
    /\ NoLoop
    /\ NoContext
    /\ NoPuter
    /\ invocation \in Invocations
    /\ config \in Configs(invocation.entry)
    /\ env \in [apiKey : BOOLEAN, groqKey : BOOLEAN]
    /\ cliPc = "start"
    /\ stages = <<>>
    /\ sent = {}
    /\ report = NoReport
    /\ validation = <<>>
    /\ result = "none"
    /\ exitCode = <<>>
    /\ runStats = NoStats

\* a generator that makes the run fail with the PDF
AfterPDFStrict(pdfOk) == IF pdfOk THEN "success" ELSE "failure"

\* Pipeline.generatePDF returns null for a failed PDF and the run goes on
AfterPDF(pdfOk) == "success"

\* the command is the whole pipeline, whose methods catch what a stage throws
InPipeline == invocation.command \in {"generate", "full"}

\* the executors and the extractor can reach a model: Groq when asked for
\* and configured, Gemini with an API key
CanRequest == (config.useGroq /\ env.groqKey) \/ env.apiKey

Ran(name) == stages' = Append(stages, name)

\* a stage throws: generate and run go to their catch block, the other
\* commands let the error leave cli
Thrown ==
    IF InPipeline
    THEN cliPc' = "caught" /\ UNCHANGED result
    ELSE result' = "thrown" /\ cliPc' = "returned"

\* Pipeline.run and Pipeline.generate, catch (err): stats.endTime and
\* stats.error are set and { success: false, stats, error } is returned
CatchRun ==
    /\ cliPc = "caught"
    /\ runStats' = [runStats EXCEPT !.endTime = TRUE, !.error = TRUE]
    /\ result' = "failure" /\ cliPc' = "returned"
    /\ UNCHANGED <<nonCliVars, invocation, config, env, stages,
                   sent, report, validation, exitCode>>

\* cli: no command, --help or -h
CliUsage ==
    /\ cliPc = "start" /\ invocation.entry = "cli" /\ invocation.command = "help"
    /\ result' = "usage" /\ cliPc' = "returned"
    /\ UNCHANGED <<nonCliVars, invocation, config, env, stages,
                   sent, report, validation, exitCode, runStats>>

\* cli: an unknown command, or too few paths: process.exit(1)
CliUsageError ==
    /\ cliPc = "start" /\ invocation.entry = "cli"
    /\ invocation.command # "help"
    /\ invocation.command = "unknown" \/ ~invocation.argsOk
    /\ result' = "usage_error" /\ exitCode' = <<1>> /\ cliPc' = "exited"
    /\ UNCHANGED <<nonCliVars, invocation, config, env, stages,
                   sent, report, validation, runStats>>

\* cli: the switch on the command; validate and render read their report
\* from a file
CliDispatch(r) ==
    /\ cliPc = "start"
    /\ invocation.command \notin {"help", "unknown"} /\ invocation.argsOk
    /\ cliPc' = CASE invocation.command \in {"generate", "extract"} -> "extract"
                  [] invocation.command \in {"transform", "full"} -> "loadIntake"
                  [] invocation.command = "validate" -> "validate"
                  [] invocation.command = "render" -> "render"
    /\ report' = IF invocation.command \in {"validate", "render"} THEN r ELSE NoReport
    /\ UNCHANGED <<nonCliVars, invocation, config, env, stages,
                   sent, validation, result, exitCode, runStats>>

\* Pipeline.extract: the Extractor is built without the dry-run flag, and
\* Extractor.callLLM sends its requests whenever it has a key
extract(ok) ==
    /\ cliPc = "extract"
    /\ Ran("extract")
    /\ IF ~CanRequest
       THEN Thrown /\ UNCHANGED sent
       ELSE /\ sent' = sent \cup {"extract"}
            /\ IF ~ok THEN Thrown
               ELSE IF invocation.command = "extract"
               THEN result' = "done" /\ cliPc' = "returned"
               ELSE cliPc' = "validateExtracted" /\ UNCHANGED result
    /\ UNCHANGED <<nonCliVars, invocation, config, env, report,
                   validation, exitCode, runStats>>

\* Pipeline.generate: validateIntake and validateMeasurements of what was extracted
validateExtracted(valid) ==
    /\ cliPc = "validateExtracted"
    /\ Ran("validateExtracted")
    /\ IF valid THEN cliPc' = "transform" /\ UNCHANGED result ELSE Thrown
    /\ UNCHANGED <<nonCliVars, invocation, config, env, sent,
                   report, validation, exitCode, runStats>>

\* Pipeline.loadIntake
loadIntake(valid) ==
    /\ cliPc = "loadIntake"
    /\ Ran("loadIntake")
    /\ IF valid THEN cliPc' = "loadMeasurements" /\ UNCHANGED result ELSE Thrown
    /\ UNCHANGED <<nonCliVars, invocation, config, env, sent,
                   report, validation, exitCode, runStats>>

\* Pipeline.loadMeasurements
loadMeasurements(valid) ==
    /\ cliPc = "loadMeasurements"
    /\ Ran("loadMeasurements")
    /\ IF valid THEN cliPc' = "transform" /\ UNCHANGED result ELSE Thrown
    /\ UNCHANGED <<nonCliVars, invocation, config, env, sent,
                   report, validation, exitCode, runStats>>

\* Pipeline.transformToReport (transformOnly writes the draft and returns)
transformToReport(r) ==
    /\ cliPc = "transform"
    /\ Ran("transform")
    /\ report' = r
    /\ IF invocation.command = "transform"
       THEN result' = "done" /\ cliPc' = "returned"
       ELSE cliPc' = "fill" /\ UNCHANGED result
    /\ UNCHANGED <<nonCliVars, invocation, config, env, sent,
                   validation, exitCode, runStats>>

\* Pipeline.fillNarratives: always a BatchLLMExecutor and fillAllNarratives;
\* in a dry run callLLM answers '{}' and the markers stay, without a key it
\* throws, else the requests are sent and the markers in remaining are left
fillNarratives(returns, remaining) ==
    /\ cliPc = "fill"
    /\ Ran("fill")
    /\ IF config.dryRun
       THEN /\ returns /\ remaining = report.markers
            /\ cliPc' = "validateFinal"
            /\ UNCHANGED <<sent, report, result>>
       ELSE IF ~CanRequest
       THEN /\ ~returns /\ remaining = report.markers
            /\ Thrown
            /\ UNCHANGED <<sent, report>>
       ELSE /\ sent' = sent \cup {"fill"}
            /\ IF returns
               THEN /\ report' = [report EXCEPT !.markers = remaining]
                    /\ cliPc' = "validateFinal"
                    /\ UNCHANGED result
               ELSE /\ remaining = report.markers
                    /\ Thrown
                    /\ UNCHANGED report
    /\ UNCHANGED <<nonCliVars, invocation, config, env,
                   validation, exitCode, runStats>>

\* Pipeline.validateFinal: throws only when the report is invalid and
\* placeholders are not allowed
validateFinal ==
    LET v == validateReport(report, config.allowPlaceholders, TRUE)
    IN  /\ cliPc = "validateFinal"
        /\ Ran("validate")
        /\ validation' = Append(validation, v)
        /\ IF ~v.valid /\ ~config.allowPlaceholders
           THEN Thrown
           ELSE cliPc' = "render" /\ UNCHANGED result
        /\ UNCHANGED <<nonCliVars, invocation, config, env, sent,
                       report, exitCode, runStats>>

\* cli, case 'validate': validateReport(reportJson, { allowPlaceholders: true }),
\* the result is printed
CliValidate ==
    /\ cliPc = "validate"
    /\ Ran("validate")
    /\ validation' = Append(validation, validateReport(report, TRUE, TRUE))
    /\ result' = "done" /\ cliPc' = "returned"
    /\ UNCHANGED <<nonCliVars, invocation, config, env, sent,
                   report, exitCode, runStats>>

\* Pipeline.render: reading the template or writing the file may throw
renderStage(ok) ==
    /\ cliPc = "render"
    /\ Ran("render")
    /\ IF ~ok THEN Thrown
       ELSE IF invocation.command = "render"
       THEN result' = "done" /\ cliPc' = "returned"
       ELSE /\ cliPc' = IF config.skipHtmlPolish THEN "pdf" ELSE "polish"
            /\ UNCHANGED result
    /\ UNCHANGED <<nonCliVars, invocation, config, env, sent,
                   report, validation, exitCode, runStats>>

\* Pipeline.polishHTMLPass: polishHTML returns the text as it is in a dry run,
\* polishes by hand without a prompt, and falls back to that when callLLM throws
polishHTMLPass(found) ==
    /\ cliPc = "polish"
    /\ Ran("polish")
    /\ sent' = IF ~config.dryRun /\ found /\ CanRequest THEN sent \cup {"polish"} ELSE sent
    /\ cliPc' = "pdf"
    /\ UNCHANGED <<nonCliVars, invocation, config, env, report,
                   validation, result, exitCode, runStats>>

\* Pipeline.generatePDF catches what the generator throws and records it in
\* stats.stages.pdf; run and generate then set stats.endTime and return
\* { success: true }
ReturnSuccess(pdfOk) ==
    /\ cliPc = "pdf"
    /\ Ran("pdf")
    /\ runStats' = [runStats EXCEPT !.endTime = TRUE,
                                    !.pdf = IF pdfOk THEN "complete" ELSE "failed"]
    /\ result' = AfterPDF(pdfOk) /\ cliPc' = "returned"
    /\ UNCHANGED <<nonCliVars, invocation, config, env, sent,
                   report, validation, exitCode>>

\* cli returns after the switch and the process ends with code 0; an error
\* that left cli is an unhandled rejection, which ends the process with code 1
CliExit ==
    /\ cliPc = "returned" /\ invocation.entry = "cli"
    /\ exitCode' = IF result = "thrown" THEN <<1>> ELSE <<0>>
    /\ cliPc' = "exited"
    /\ UNCHANGED <<nonCliVars, invocation, config, env, stages,
                   sent, report, validation, result, runStats>>

CliNext ==
    \/ CliUsage
    \/ CliUsageError
    \/ \E r \in Drafts : CliDispatch(r)
    \/ \E ok \in BOOLEAN : extract(ok)
    \/ \E valid \in BOOLEAN : validateExtracted(valid)
    \/ \E valid \in BOOLEAN : loadIntake(valid)
    \/ \E valid \in BOOLEAN : loadMeasurements(valid)
    \/ \E r \in Drafts : transformToReport(r)
    \/ \E returns \in BOOLEAN, remaining \in SUBSET report.markers :
            fillNarratives(returns, remaining)
    \/ validateFinal
    \/ CliValidate
    \/ \E ok \in BOOLEAN : renderStage(ok)
    \/ CatchRun
    \/ \E found \in BOOLEAN : polishHTMLPass(found)
    \/ \E pdfOk \in BOOLEAN : ReturnSuccess(pdfOk)
    \/ CliExit

CliSpec == CliInit /\ [][CliNext]_vars

\* --------------------------------------------- polishHTML, step by step
\* the stretches of a rendered text; "short" is >Yes</p, a text the
\* punctuation pattern matches and the length test passes over
HtmlInputs == {"text", "short", "broken", "marker_summary", "ie"}
HtmlTexts == UNION {[1..n -> HtmlInputs] : n \in 0..MaxHtmlLen}

\* the ways callLLM ends in polishHTML: it throws, or it returns a text
Replies ==
    {[kind |-> "threw", doctype |-> FALSE, closing |-> FALSE, html |-> <<>>]}
    \cup [kind : {"content"}, doctype : BOOLEAN, closing : BOOLEAN,
          html : {<<"generated">>, <<"ie">>}]

\* a check that takes either end of the wrapper for a document
isCompleteDocumentEither(r) == r.doctype \/ r.closing

\* polishedHtml.includes('<!DOCTYPE html>') && polishedHtml.includes('</html>')
isCompleteDocument(r) == r.doctype /\ r.closing

\* summarizeHTMLChanges: the markers and fences that went, a rewrite when the
\* lengths differ, else the minor_polish entry
summarizeHTMLChanges(original, polishedHtml) ==
    LET ie == Matches(original, {"ie"}) - Matches(polishedHtml, {"ie"})
        md == Matches(original, {"fence", "ie_fenced"})
              - Matches(polishedHtml, {"fence", "ie_fenced"})
        changes == Step("fix_insufficient_evidence", ie) \o Step("remove_markdown", md)
                   \o (IF Len(original) # Len(polishedHtml)
                       THEN <<[type |-> "text_rewrite"]>> ELSE <<>>)
    IN  IF changes = <<>> THEN <<[type |-> "minor_polish"]>> ELSE changes

\* manualPolishHTML, steps 1 to 4
polishBeforePunctuation(h) ==
    LET n1 == Matches(h, {"ie"})
        p1 == Replace(h, "ie", "dna")
        n2 == Matches(p1, {"fence", "ie_fenced"})
        p2 == RemoveMarkdown(p1)
        n3 == Matches(p2, {"marker", "unmapped", "marker_summary", "marker_risk"})
        p3 == [i \in DOMAIN p2 |-> IF IsMarker(p2[i]) THEN DefaultSentence(p2[i]) ELSE p2[i]]
        n4 == Matches(p3, {"tvar_known", "tvar_other"})
        p4 == Replace(p3, "tvar_known", "tvar_text")
    IN  [html |-> p4,
         changes |-> Step("fix_insufficient_evidence", n1) \o Step("remove_markdown", n2)
                     \o Step("fix_placeholders", n3) \o Step("fix_template_vars", n4)]

\* manualPolishHTML after the loop: the fix_punctuation entry, step 6, the
\* no_changes entry
polishAfterPunctuation(w, count) ==
    LET n6 == Matches(w.html, {"ds", "ds11"})
        p6 == IF n6 > WhitespaceThreshold
              THEN Replace(Replace(w.html, "ds", "space"), "ds11", "space") ELSE w.html
        changes == w.changes \o Step("fix_punctuation", count)
                   \o (IF n6 > WhitespaceThreshold THEN Step("fix_whitespace", n6) ELSE <<>>)
    IN  [html |-> p6, changes |-> IF changes = <<>> THEN <<NoChanges>> ELSE changes]

\* the stretches brokenSentencePattern.exec finds past position from
MatchesPast(h, from) == {i \in DOMAIN h : i > from /\ h[i] \in {"broken", "short"}}

\* a pattern without the g flag: lastIndex stays 0
lastIndexAfterMatchReset(m) == 0

\* the g flag: lastIndex is the end of the match
lastIndexAfterMatch(m) == m

\* polished.replace(match[0], ...): the first occurrence of the matched text
replaceFirst(h, v, to) ==
    LET k == CHOOSE i \in DOMAIN h : h[i] = v /\ \A j \in 1..(i - 1) : h[j] # v
    IN  [h EXCEPT ![k] = to]

HtmlInit ==
    /\ NoPipeline
    /\ NoWrite
    /\ NoCli
    /\ NoLoop
    /\ NoContext
    /\ NoPuter
    /\ text \in HtmlTexts
    /\ polished = <<>>
    /\ polishOptions \in [dryRun : BOOLEAN, found : BOOLEAN]
    /\ polishPc = "entered"
    /\ reply = NoReply
    /\ working = [html |-> <<>>, changes |-> <<>>]
    /\ lastIndex = 0
    /\ brokenCount = 0

\* return this.manualPolishHTML(html): up to the punctuation loop
EnterManualPolish ==
    /\ working' = polishBeforePunctuation(text)
    /\ lastIndex' = 0
    /\ brokenCount' = 0
    /\ polishPc' = "loop"
    /\ UNCHANGED polished

\* polishHTML up to the await of callLLM
polishHTMLEnter ==
    /\ polishPc = "entered"
    /\ IF polishOptions.dryRun
       THEN /\ polished' = <<[html |-> text, changes |-> <<[type |-> "dry_run"]>>]>>
            /\ polishPc' = "returned"
            /\ UNCHANGED <<working, lastIndex, brokenCount>>
       ELSE IF ~polishOptions.found
       THEN EnterManualPolish
       ELSE /\ polishPc' = "call"
            /\ UNCHANGED <<polished, working, lastIndex, brokenCount>>
    /\ UNCHANGED <<nonPolishVars, text, polishOptions, reply>>

\* callLLM ends as r: the catch, or the check of the text it returned
polishHTMLResume(r) ==
    /\ polishPc = "call"
    /\ reply' = r
    /\ IF r.kind = "content" /\ isCompleteDocument(r)
       THEN /\ polished' = <<[html |-> r.html, changes |-> summarizeHTMLChanges(text, r.html)]>>
            /\ polishPc' = "returned"
            /\ UNCHANGED <<working, lastIndex, brokenCount>>
       ELSE EnterManualPolish
    /\ UNCHANGED <<nonPolishVars, text, polishOptions>>

\* one iteration of while ((match = brokenSentencePattern.exec(polished)) !== null)
PunctuationStep ==
    /\ polishPc = "loop"
    /\ MatchesPast(working.html, lastIndex) # {}
    /\ LET m == CHOOSE i \in MatchesPast(working.html, lastIndex) :
                    \A j \in MatchesPast(working.html, lastIndex) : i <= j
       IN  /\ lastIndex' = lastIndexAfterMatch(m)
           /\ IF working.html[m] = "broken"
              THEN /\ working' = [working EXCEPT
                                    !.html = replaceFirst(working.html, "broken", "punctuated")]
                   /\ brokenCount' = brokenCount + 1
              ELSE UNCHANGED <<working, brokenCount>>
    /\ UNCHANGED <<nonPolishVars, text, polished, polishOptions, polishPc, reply>>

\* exec returns null: the rest of manualPolishHTML, return { html, changes }
PunctuationDone ==
    /\ polishPc = "loop"
    /\ MatchesPast(working.html, lastIndex) = {}
    /\ polished' = <<polishAfterPunctuation(working, brokenCount)>>
    /\ polishPc' = "returned"
    /\ UNCHANGED <<nonPolishVars, text, polishOptions, reply, working, lastIndex, brokenCount>>

HtmlNext ==
    \/ polishHTMLEnter
    \/ \E r \in Replies : polishHTMLResume(r)
    \/ PunctuationStep
    \/ PunctuationDone

HtmlSpec == HtmlInit /\ [][HtmlNext]_vars

\* callLLM ends one way or another (its retry loop is bounded) and the
\* synchronous code of polishHTML runs on
HtmlLiveSpec == HtmlSpec /\ WF_vars(HtmlNext)

\* ------------------------------------------- PuterAdapter.generate
\* a model is its place in PUTER_FALLBACK_ORDER, 0 for a model outside it;
\* PuterAdapter.getNextFallbackModel returns null (0) for such a model and for the last
puterGetNextFallbackModel(model) ==
    IF model < 1 \/ model >= NumPuterModels THEN 0 ELSE model + 1

\* const maxRetries = options.maxRetries || 3
PuterMaxRetries(option) == IF option = 0 THEN PuterDefaultRetries ELSE option

\* what the backend answers: a result, status 429 or 503, another status
\* that is not ok, a body that is not JSON, or fetch rejects
PuterResponses == {"ok", "rate_limited", "http_error", "bad_body", "fetch_failed"}

\* the messages of the errors the try block throws
PuterMessage(resp) ==
    CASE resp = "rate_limited" -> "Puter rate limited on all models"
      [] resp = "http_error" -> "Puter API error"
      [] resp = "bad_body" -> "Unexpected token"
      [] resp = "fetch_failed" -> "fetch failed"

\* err.message.includes('fetch failed') || includes('network') || includes('ECONNRESET')
puterIsRetryable(message) == message = "fetch failed"

\* after the loop: throw new Error(`Puter API call failed: ${lastError.message}`);
\* reading .message of an undefined lastError throws a TypeError instead
PuterThrow(last) == IF last = "none" THEN "type_error" ELSE "call_failed"

PuterInit ==
    /\ NoPipeline
    /\ NoPolish
    /\ NoWrite
    /\ NoCli
    /\ NoLoop
    /\ NoContext
    /\ puter \in [model : 0..NumPuterModels, option : 0..MaxRetriesOption, attempt : {0},
                  lastError : {"none"}, sleeps : {0}, pc : {"request"}, result : {"none"}]

\* one pass of the for loop with the response resp, and what follows when
\* the loop ends with it
PuterResponse(resp) ==
    LET max  == PuterMaxRetries(puter.option)
        next == puterGetNextFallbackModel(puter.model)
        \* the pass ends with continue: attempt++ and the loop test
        PuterContinue(p) ==
            IF p.attempt + 1 <= max
            THEN [p EXCEPT !.attempt = p.attempt + 1]
            ELSE [p EXCEPT !.attempt = p.attempt + 1, !.pc = "ended",
                           !.result = PuterThrow(p.lastError)]
        \* the pass ends in the catch with err
        PuterCatch(err) ==
            LET p == [puter EXCEPT !.lastError = err]
            IN  IF puterIsRetryable(err) /\ puter.attempt < max
                THEN PuterContinue([p EXCEPT !.sleeps = p.sleeps + 1])
                ELSE [p EXCEPT !.pc = "ended", !.result = PuterThrow(err)]
    IN  /\ puter.pc = "request"
        /\ puter' =
              CASE resp = "ok" -> [puter EXCEPT !.pc = "ended", !.result = "returned"]
                [] resp = "rate_limited" ->
                      IF next # 0 THEN PuterContinue([puter EXCEPT !.model = next])
                      ELSE PuterCatch(PuterMessage(resp))
                [] OTHER -> PuterCatch(PuterMessage(resp))
        /\ UNCHANGED nonPuterVars

PuterNext == \E resp \in PuterResponses : PuterResponse(resp)

PuterSpec == PuterInit /\ [][PuterNext]_vars

\* ------------------------------------------------ one callLLM on its own
Kinds == {"LLMExecutor", "BatchLLMExecutor", "Extractor"}

\* this.maxRetries = options.maxRetries || 2 (LLMExecutor), || 3
\* (BatchLLMExecutor); Extractor.callLLM takes maxRetries as its parameter
thisMaxRetries(kind, option) ==
    CASE kind = "LLMExecutor" -> IF option = 0 THEN LLMMaxRetries ELSE option
      [] kind = "BatchLLMExecutor" -> IF option = 0 THEN BatchMaxRetries ELSE option
      [] kind = "Extractor" -> option

\* the catch of the three retry loops; Extractor.callLLM has the shape of
\* LLMExecutor.callLLM
CatchOf(kind, err, att, fbAttempted, canFallback, max) ==
    IF kind = "BatchLLMExecutor"
    THEN BatchCatchWith(err, att, fbAttempted, canFallback, max)
    ELSE LLMCatchWith(err, att, fbAttempted, canFallback, max)

LoopInit ==
    /\ NoPipeline
    /\ NoPolish
    /\ NoWrite
    /\ NoCli
    /\ NoContext
    /\ NoPuter
    /\ loopKind \in Kinds
    /\ loopOption \in 0..MaxRetriesOption
    /\ loopModel \in Models
    /\ loopAttempt = 0
    /\ loopFallbackAttempted = FALSE
    /\ loopRequests = 0
    /\ loopPc = "request"
    /\ loopGroq \in [adapter : BOOLEAN, lastError : {"none"}, calls : {0}, thrown : {"none"}]

\* the request is answered with a result: callLLM returns
LoopSuccess ==
    /\ loopPc = "request"
    /\ loopRequests' = loopRequests + 1
    /\ loopPc' = "ended"
    /\ UNCHANGED <<nonLoopVars, loopKind, loopOption, loopModel, loopAttempt,
                   loopFallbackAttempted, loopGroq>>

\* after the loop: if (this.groqAdapter && isRateLimitError(lastError)) in
\* LLMExecutor and BatchLLMExecutor; Extractor.callLLM has no such block
HasGroqFallback(kind, adapter, last) ==
    kind # "Extractor" /\ adapter /\ isRateLimitError(last)

\* a catch (groqErr) that throws what it caught
ThrownAfterGroqRethrown(last, groqErr) == groqErr

\* catch (groqErr) only logs, then throw lastError
ThrownAfterGroq(last, groqErr) == last

\* the request fails with err: the catch, then attempt++ and the loop test
LoopError(err) ==
    LET max  == thisMaxRetries(loopKind, loopOption)
        next == fallbackToNextModel(loopModel)
        d    == CatchOf(loopKind, err, loopAttempt, loopFallbackAttempted, next # NoModel,
                        max)
    IN  /\ loopPc = "request"
        /\ loopRequests' = loopRequests + 1
        /\ IF d = "fallback"
           THEN /\ loopModel' = next
                /\ loopFallbackAttempted' = TRUE
                /\ loopAttempt' = AttemptAfterFallback(loopAttempt)
                /\ UNCHANGED loopPc
                /\ loopGroq' = [loopGroq EXCEPT !.lastError = err]
           ELSE /\ UNCHANGED <<loopModel, loopFallbackAttempted>>
                /\ IF d # "break" /\ loopAttempt + 1 <= max
                   THEN /\ loopAttempt' = loopAttempt + 1 /\ UNCHANGED loopPc
                        /\ loopGroq' = [loopGroq EXCEPT !.lastError = err]
                   ELSE /\ UNCHANGED loopAttempt
                        /\ IF HasGroqFallback(loopKind, loopGroq.adapter, err)
                           THEN /\ loopPc' = "groq"
                                /\ loopGroq' = [loopGroq EXCEPT !.lastError = err]
                           ELSE /\ loopPc' = "ended"
                                /\ loopGroq' = [loopGroq EXCEPT !.lastError = err,
                                                                !.thrown = err]
        /\ UNCHANGED <<nonLoopVars, loopKind, loopOption>>

\* groqAdapter.generate returns: callLLM returns its content
LoopGroqSuccess ==
    /\ loopPc = "groq"
    /\ loopGroq' = [loopGroq EXCEPT !.calls = @ + 1]
    /\ loopPc' = "ended"
    /\ UNCHANGED <<nonLoopVars, loopKind, loopOption, loopModel, loopAttempt,
                   loopFallbackAttempted, loopRequests>>

\* groqAdapter.generate throws groqErr: the catch, then throw lastError
LoopGroqFailure ==
    /\ loopPc = "groq"
    /\ loopGroq' = [loopGroq EXCEPT !.calls = @ + 1,
                                    !.thrown = ThrownAfterGroq(loopGroq.lastError, "groqErr")]
    /\ loopPc' = "ended"
    /\ UNCHANGED <<nonLoopVars, loopKind, loopOption, loopModel, loopAttempt,
                   loopFallbackAttempted, loopRequests>>

LoopNext ==
    \/ LoopSuccess
    \/ \E err \in {"rateLimited", "transient", "fatal"} : LoopError(err)
    \/ LoopGroqSuccess
    \/ LoopGroqFailure

LoopSpec == LoopInit /\ [][LoopNext]_vars

\* ------------------------------- the context of a placeholder, two runs
\* the strings of a fix item: a marker, a text of the transform, a generated text
Generated == {"generated1", "generated2"}

\* the keys of a fix item that hold strings, in insertion order
FixKeys == <<"problem", "solution", "basis">>

\* findPlaceholders on fixes.items[0]: the keys whose string is a marker
findPlaceholdersFix(fix) ==
    LET Test(k) == fix[k] = "marker" IN SelectSeq(FixKeys, Test)

\* buildContextForPlaceholder(placeholder, reportJson) for a path under
\* fixes.items[0]: the fields of the fix the document passed in holds
buildContextForPlaceholder(path, fix) ==
    [problem |-> fix.problem, solution |-> fix.solution, quick_win_flag |-> fix.quick_win]

ContextInit ==
    /\ NoPuter
    /\ NoPipeline
    /\ NoPolish
    /\ NoWrite
    /\ NoCli
    /\ NoLoop
    /\ fixInput \in [problem : {"marker", "known"}, solution : {"marker", "known"},
                     basis : {"marker", "known"}, quick_win : BOOLEAN]
    /\ fixFilled = [r \in Runs |-> fixInput]
    /\ contexts = [r \in Runs |-> <<>>]
    /\ fixIdx = 1

\* one iteration in both runs: the context is built from filledReport, the
\* call returns output[r] in run r, setAtPath writes it
FillFix(output) ==
    LET found == findPlaceholdersFix(fixInput) IN
    /\ fixIdx <= Len(found)
    /\ contexts' = [r \in Runs |->
                      Append(contexts[r], buildContextForPlaceholder(found[fixIdx], fixFilled[r]))]
    /\ fixFilled' = [r \in Runs |-> [fixFilled[r] EXCEPT ![found[fixIdx]] = output[r]]]
    /\ fixIdx' = fixIdx + 1
    /\ UNCHANGED <<nonContextVars, fixInput>>

\* one iteration in both runs, the call fails: the catch leaves the marker
FillFixFailed ==
    LET found == findPlaceholdersFix(fixInput) IN
    /\ fixIdx <= Len(found)
    /\ contexts' = [r \in Runs |->
                      Append(contexts[r], buildContextForPlaceholder(found[fixIdx], fixFilled[r]))]
    /\ fixIdx' = fixIdx + 1
    /\ UNCHANGED <<nonContextVars, fixInput, fixFilled>>

ContextNext ==
    \/ \E output \in [Runs -> Generated] : FillFix(output)
    \/ FillFixFailed

ContextSpec == ContextInit /\ [][ContextNext]_vars

\* --------------------------------------- the write into a nested report
\* A path is the keys walked from the root and the index that ends it
\* ('a.b[0]' is keys a, b and index 1; index 0: the path ends with a key).
Path(keys, index) == [keys |-> keys, index |-> index]

\* the leaves of { a: { b: [...], c: '...' } } holding a marker, in the
\* order of the traversal (arrays by index, objects by Object.entries)
findPlaceholdersNested(obj) ==
    LET InB(i) == IsMarker(obj.a.b.value[i].value)
        bs == SelectSeq([i \in 1..Len(obj.a.b.value) |-> i], InB)
    IN  [k \in 1..Len(bs) |-> Path(<<"a", "b">>, bs[k])]
        \o (IF IsMarker(obj.a.c.value) THEN <<Path(<<"a", "c">>, 0)>> ELSE <<>>)

\* current[i] = value on an array: the array grows when i is past its end
AssignIndex(arr, i, value) ==
    Arr([k \in 1..Max(Len(arr.value), i) |->
        IF k = i THEN value
        ELSE IF k <= Len(arr.value) THEN arr.value[k] ELSE Str("undefined")])

\* setAtPath on the nested report: walk the keys, assign at the last part
RECURSIVE SetAtKeys(_, _, _, _)
SetAtKeys(obj, keys, index, value) ==
    IF Len(keys) = 0 THEN AssignIndex(obj, index, value)
    ELSE IF Len(keys) = 1 /\ index = 0 THEN [obj EXCEPT ![keys[1]] = value]
    ELSE [obj EXCEPT ![keys[1]] = SetAtKeys(obj[keys[1]], Tail(keys), index, value)]

setAtPathNested(obj, path, value) == SetAtKeys(obj, path.keys, path.index, value)

\* parseArrayOutput(output): always an array, here of n strings
parseArrayOutput(n) == Arr([i \in 1..n |-> Str("generated")])

\* a write that never leaves the placeholder's own path
targetPathSame(path, outputType) == path

\* for an array output, a path ending with [N] is replaced by its parent
targetPath(path, outputType) ==
    IF outputType = "array_of_strings" /\ path.index # 0
    THEN Path(path.keys, 0) ELSE path

\* what validateOutput looks for in an output: more than max_length_chars
\* characters, a must_contain phrase missing, a must_not_contain phrase
\* present, the sentinel [INSUFFICIENT_EVIDENCE]
OutputFeatures == {"too_long", "phrase_missing", "phrase_forbidden", "insufficient_evidence"}

\* validateOutput(prompt, output): one error for each constraint violated
validateOutput(features) == features \cap OutputFeatures

\* a fill that drops an output with validation errors
AfterValidationStrict(errors) == IF errors = {} THEN "write" ELSE "skip"

\* if (errors.length > 0) console.warn(...): the loop body goes on to the write
AfterValidation(errors) == "write"

\* the strings of a nested report; "dangling" is '[LLM_PLACEHOLDER: name' with
\* no closing bracket: it holds the prefix, the pattern does not match it
NestedStrings == {Str("marker"), Str("text"), Str("dangling")}

Reports ==
    { [a |-> [b |-> Arr(arr), c |-> leaf]] :
        arr \in UNION {[1..n -> NestedStrings] : n \in 1..MaxArrayLen},
        leaf \in NestedStrings }

WriteInit ==
    /\ NoPipeline
    /\ NoPolish
    /\ NoCli
    /\ NoLoop
    /\ NoContext
    /\ NoPuter
    /\ nestedInput \in Reports
    /\ nested = nestedInput
    /\ pendingPaths = findPlaceholdersNested(nestedInput)
    /\ written = <<>>

\* fillPlaceholders, loop body after callLLM returned: parse by output_type,
\* choose the target path, setAtPath
\* outputType: prompt.output_type; n: the lines of the model's answer
\* features: what the constraints of the prompt find in the output
WriteOutput(outputType, n, features) ==
    /\ pendingPaths # <<>>
    /\ LET path == Head(pendingPaths)
           output == IF outputType = "array_of_strings"
                     THEN parseArrayOutput(n) ELSE Str("generated")
           errors == validateOutput(features)
           target == targetPath(path, outputType)
       IN  /\ nested' = IF AfterValidation(errors) = "write"
                        THEN setAtPathNested(nested, target, output) ELSE nested
           /\ written' = Append(written, [path |-> path, target |-> target,
                                          outputType |-> outputType, n |-> n,
                                          warned |-> errors # {}])
    /\ pendingPaths' = Tail(pendingPaths)
    /\ UNCHANGED <<nonWriteVars, nestedInput>>

\* fillPlaceholders, catch (err): nothing is written
WriteFailed ==
    /\ pendingPaths # <<>>
    /\ pendingPaths' = Tail(pendingPaths)
    /\ UNCHANGED <<nonWriteVars, nestedInput, nested, written>>

WriteNext ==
    \/ \E n \in 0..MaxOutputLen, features \in SUBSET OutputFeatures :
            WriteOutput("array_of_strings", n, features)
    \/ \E features \in SUBSET OutputFeatures : WriteOutput("string", 1, features)
    \/ WriteFailed

WriteSpec == WriteInit /\ [][WriteNext]_vars

\* C12: the placeholder at a.b[0] is the only element of a.b and an array of
\* at least one string is written for it: a.b is that array, a.b[0] its
\* first string
C12_ArrayReplacesParent ==
    (/\ Len(nestedInput.a.b.value) = 1
     /\ written # <<>>
     /\ written[1].path = Path(<<"a", "b">>, 1)
     /\ written[1].outputType = "array_of_strings" /\ written[1].n >= 1
     /\ Len(written) = 1) =>
        /\ nested.a.b.kind = "array"
        /\ Len(nested.a.b.value) = written[1].n
        /\ \A i \in 1..written[1].n :
              /\ nested.a.b.value[i].kind = "string"
              /\ nested.a.b.value[i] = parseArrayOutput(written[1].n).value[i]

C12_Witness ==
    /\ Len(nestedInput.a.b.value) = 1
    /\ Len(written) = 1
    /\ written[1].path = Path(<<"a", "b">>, 1)
    /\ written[1].outputType = "array_of_strings" /\ written[1].n = 3
    /\ Len(nested.a.b.value) = 3
    /\ nested.a.b.value[1] = Str("generated")

\* C11: polishing a polished text changes nothing, and reports no change
C11_PolishIdempotent ==
    Len(polished) = 2 =>
        /\ polished[2].html = polished[1].html
        /\ polished[2].changes = <<NoChanges>>

\* the text has no defect but its markers, and has at least one
OnlyMarkers(h) ==
    /\ \A i \in DOMAIN h : IsMarker(h[i]) \/ h[i] = "text"
    /\ \E i \in DOMAIN h : IsMarker(h[i])

\* C13: when the polish model call fails, a text whose only defects are n >= 1
\* markers comes back with every marker replaced by the default sentence of
\* its field name (distinct for finding_summary and finding_risk), the rest
\* untouched, and the change list is the single entry fix_placeholders, n
C13_DefaultsPerField ==
    (Len(polished) >= 1 /\ OnlyMarkers(text)) =>
        LET out == polished[1] IN
        /\ Len(out.html) = Len(text)
        /\ \A i \in DOMAIN text :
              /\ text[i] = "text" => out.html[i] = "text"
              /\ text[i] = "marker_summary" => out.html[i] = "default_summary"
              /\ text[i] = "marker_risk" => out.html[i] = "default_risk"
              /\ text[i] = "unmapped" => out.html[i] = "default"
        /\ out.changes =
              <<[type |-> "fix_placeholders",
                 count |-> Cardinality({i \in DOMAIN text : IsMarker(text[i])})]>>

C13_Witness ==
    /\ Len(polished) >= 1
    /\ OnlyMarkers(text)
    /\ \E i, j \in DOMAIN text : text[i] = "marker_summary" /\ text[j] = "marker_risk"
    /\ polished[1].changes[1].count = 2

\* the stages run so far, as a set
StagesRun == {stages[i] : i \in DOMAIN stages}

\* C14: with the dry-run flag set no stage of a run (extraction, narrative
\* fill, HTML polish) sends a remote generation request
C14_DryRunSendsNothing == config.dryRun => sent = {}

\* C15: a run told to skip the LLM, with placeholders allowed, whose inputs
\* were loaded and transformed makes no narrative-generation call, sends no
\* generation request for the narratives and ends with success = true
C15_SkipLLMSkipsFill ==
    (config.skipLLM /\ config.allowPlaceholders /\ InPipeline /\ "transform" \in StagesRun) =>
        /\ "fill" \notin StagesRun
        /\ "fill" \notin sent
        /\ cliPc \in {"returned", "exited"} => result = "success"

\* the stages of the documented order among those run
DocumentedStages ==
    LET Documented(name) == name \in {"extract", "transform", "validate", "fill", "render"}
    IN  SelectSeq(stages, Documented)

\* C16: a full pipeline run that succeeds ran Extract (when it starts from an
\* info dump), Transform, Validate, LLM Fill, Validate, Render in this order,
\* and rendered a report whose last validation passed
C16_StageOrder ==
    (InPipeline /\ result = "success") =>
        /\ DocumentedStages \in
              { <<"extract", "transform", "validate", "fill", "validate", "render">>,
                <<"transform", "validate", "fill", "validate", "render">> }
        /\ validation[Len(validation)].valid

\* C17: validateReport with allowPlaceholders = true finds every report valid
\* that fits the schema and whose figures are consistent, whichever fields
\* hold a marker
C17_PlaceholdersNeverInvalid ==
    \A i \in DOMAIN validation :
        (/\ validation[i].allowPlaceholders
         /\ validation[i].report.schemaValid
         /\ ~validation[i].report.bleedMismatch) => validation[i].valid

\* C18: a command that failed exits with code 1, one that succeeded with
\* code 0; in particular cli exits with code 1 when generate or run ended
\* with success = false
C18_ExitCodeTellsFailure ==
    exitCode # <<>> =>
        /\ result \in {"failure", "thrown", "usage_error"} => exitCode = <<1>>
        /\ result \in {"success", "done", "usage"} => exitCode = <<0>>

CallSucceeds ==
    \E content \in AllContents, lat \in 0..MaxLatency :
        FetchSuccess(content, lat) \/ GroqSuccess(content, lat)

\* a step in which callLLM ends by throwing
CallFails == callsDone' = callsDone + 1 /\ ~options.dryRun /\ ~CallSucceeds

\* C22: every call that fails (no API key, forced-Groq mode and the batch
\* executor included) is recorded in the run statistics and the run goes on
C22_FailedCallRecorded ==
    [][CallFails => (stats'.errors = stats.errors + 1 /\ stage' # "failed")]_vars

\* the errors a request may fail with
Errors == {"rateLimited", "transient", "fatal"}

\* C23: wherever a callLLM of either executor awaits a request, the two
\* executors, given the same maxRetries, answer every failure of that request
\* with the same step (fallback, wait, retry or break)
C23_SameFallbackBehaviour ==
    Requesting =>
        \A err \in Errors :
            LLMCatchWith(err, attempt, fallbackAttempted,
                         fallbackToNextModel(currentModel) # NoModel, maxRetries)
            = BatchCatchWith(err, attempt, fallbackAttempted,
                             fallbackToNextModel(currentModel) # NoModel, maxRetries)

\* C24: whatever maxRetries >= 0 is configured and however the backend
\* answers, a callLLM sends at most 2 x (maxRetries + 1) requests to the
\* primary provider
C24_RequestsBounded == loopRequests <= 2 * (loopOption + 1)

\* fillPlaceholders has scanned the document and has not returned yet
Filling == options.strategy = "perPlaceholder" /\ fillOutcome = "pending" /\ pc # "start"

\* the placeholders whose callLLM has ended
Resolved == {f \in Fields : status[f] \in {"filled", "failed"}}

\* C25: fillPlaceholders takes the placeholders one at a time in scan order:
\* the one at work is the first still pending, every earlier one is settled,
\* every call started before has ended, and at most one call is under way
C25_OneAtATimeInOrder ==
    Filling =>
        /\ \A k, l \in 1..Len(placeholders) : k < l => placeholders[k] < placeholders[l]
        /\ \A k \in 1..Len(placeholders) : (status[placeholders[k]] = "pending") <=> (k >= idx)
        /\ callsDone = Cardinality(Resolved)
        /\ caller # "none" =>
              /\ caller = "fillPlaceholders"
              /\ idx <= Len(placeholders)
              /\ HasPrompt(reportJson[placeholders[idx]])

\* the second of two placeholders is requested, the first one settled
C25_Witness ==
    /\ Filling /\ caller = "fillPlaceholders" /\ pc = "fetch"
    /\ Len(placeholders) = 2 /\ idx = 2
    /\ status[placeholders[1]] = "filled" /\ status[placeholders[2]] = "pending"
    /\ callsDone = 1

\* C26: two runs on the same document that differ only in the texts generated
\* pass the same context to callLLM for every placeholder
C26_ContextFromOriginalOnly == contexts[1] = contexts[2]

\* C27: polishHTML returns the model's text only when that text holds both
\* '<!DOCTYPE html>' and '</html>'; in every other case it returns
\* manualPolishHTML of the original text
C27_AcceptsOnlyCompleteDocument ==
    polishPc = "returned" =>
        IF reply.kind = "content" /\ reply.doctype /\ reply.closing
        THEN polished[1].html = reply.html
        ELSE polished[1] = manualPolishHTML(text)

HoldsPlaceholder == report.markers # {} \/ report.dangling

\* C29: with allowPlaceholders off a run of the pipeline reaches render only
\* when no string holds '[LLM_PLACEHOLDER', closed or dangling; a report that
\* holds one at the final validation ends the run as a failure, nothing rendered
C29_NoRenderWithPlaceholders ==
    (InPipeline /\ ~config.allowPlaceholders) =>
        /\ "render" \in StagesRun => ~HoldsPlaceholder
        /\ ("validate" \in StagesRun /\ HoldsPlaceholder) =>
              /\ cliPc = "caught" \/ result = "failure"
              /\ StagesRun \cap {"render", "polish", "pdf"} = {}

\* the fill resolved every marker, a dangling '[LLM_PLACEHOLDER' is left, and
\* the run failed at the final validation
C29_Witness ==
    /\ InPipeline /\ ~config.allowPlaceholders
    /\ "validate" \in StagesRun
    /\ report.markers = {} /\ report.dangling
    /\ report.schemaValid /\ ~report.bleedMismatch
    /\ result = "failure"
    /\ cliPc = "returned"

\* the value the filled report holds at a path
ValueAt(p) ==
    IF p.index = 0 THEN nested.a[p.keys[2]]
    ELSE IF nested.a.b.kind = "array" /\ p.index <= Len(nested.a.b.value)
    THEN nested.a.b.value[p.index]
    ELSE Str("undefined")

\* the value a write put at its target
ValueWritten(w) ==
    IF w.outputType = "array_of_strings" THEN parseArrayOutput(w.n) ELSE Str("generated")

\* C30: every value fillPlaceholders has written is still at its target, as
\* written, after the writes for the later placeholders, also when an array
\* holds two markers and an array output replaces the parent array
C30_EarlierWritesKept ==
    \A k \in DOMAIN written :
        /\ ValueAt(written[k].target).kind = ValueWritten(written[k]).kind
        /\ ValueAt(written[k].target) = ValueWritten(written[k])

\* the paths of the strings of the nested report
NestedPaths(obj) ==
    {Path(<<"a", "b">>, i) : i \in 1..Len(obj.a.b.value)} \cup {Path(<<"a", "c">>, 0)}

\* the string the report handed in holds at a path
InputAt(p) ==
    IF p.index = 0 THEN nestedInput.a[p.keys[2]] ELSE nestedInput.a.b.value[p.index]

\* the paths the scan reported
Reported == {findPlaceholdersNested(nestedInput)[k] :
                k \in DOMAIN findPlaceholdersNested(nestedInput)}

\* the strings with a dangling marker
DanglingPaths == {p \in NestedPaths(nestedInput) : InputAt(p) = Str("dangling")}

\* C31 as stated: the scan reports exactly the strings with a well-formed
\* marker, and a string with a dangling marker is as it was after every write
C31_DanglingLeftUnchanged ==
    /\ Reported = {p \in NestedPaths(nestedInput) : InputAt(p) = Str("marker")}
    /\ \A p \in DanglingPaths : ValueAt(p) = Str("dangling")

\* the loop of fillPlaceholders is at a placeholder with no prompt mapping or
\* no registry entry
AtUnmapped ==
    /\ pc = "fill_loop" /\ idx <= Len(placeholders)
    /\ reportJson[placeholders[idx]] = "unmapped"

C33_ValidationFailOpen ==
    written # <<>> =>
        LET w == written[Len(written)] IN
        w.warned =>
            /\ ValueAt(w.target).kind = ValueWritten(w).kind
            /\ ValueAt(w.target) = ValueWritten(w)

\* the leaf marker drew a warning and holds the generated string
C33_Witness ==
    /\ nestedInput.a.c = Str("marker")
    /\ pendingPaths = <<>>
    /\ written # <<>>
    /\ written[Len(written)].path = Path(<<"a", "c">>, 0)
    /\ written[Len(written)].warned
    /\ written[Len(written)].outputType = "string"
    /\ nested.a.c.kind = "string" /\ nested.a.c = Str("generated")

\* C34: in fillAllNarratives the generation call is the first call; the
\* refinement call is entered only from the parsed generation output, after
\* exactly one call has ended and with skipRefinement off; a returned
\* invocation has made one call with skipRefinement and two without
C34_GenerationBeforeRefinement ==
    /\ [](options.strategy = "batch" =>
            /\ caller = "generation" => callsDone = 0 /\ generatedContent = {}
            /\ (pc = "refine_start" \/ caller = "refinement") =>
                  ~options.skipRefinement /\ callsDone = 1
            /\ pc = "validate" =>
                  callsDone = IF options.skipRefinement THEN 1 ELSE 2)
    /\ [][(pc' = "refine_start" /\ pc # "refine_start") =>
            /\ caller = "generation" \/ (pc = "start" /\ callsDone = 0)
            /\ caller' = "none"
            /\ callsDone' = callsDone + 1]_vars
    /\ [][(caller' = "refinement" /\ caller # "refinement") =>
            pc = "refine_start" /\ generatedContent' = generatedContent]_vars

\* the refinement request is awaited after a generation that parsed to a field
C34_Witness ==
    /\ options.strategy = "batch" /\ ~options.dryRun /\ ~options.skipRefinement
    /\ caller = "refinement" /\ pc = "fetch"
    /\ callsDone = 1
    /\ generatedContent # {}

\* the placeholders with a prompt definition
Mapped == {f \in Fields : reportJson[f] = "marker"}

C36_RunNeverRaises ==
    /\ [](InPipeline => result # "thrown")
    /\ [](InPipeline /\ result = "failure" => runStats.endTime /\ runStats.error)
    /\ [](InPipeline /\ result = "success" => runStats.endTime /\ ~runStats.error)
    /\ [](runStats.pdf = "failed" => result = "success")
    /\ [][InPipeline /\ (cliPc = "caught" \/ result = "failure") => stages' = stages]_vars
    /\ [][InPipeline /\ cliPc' = "caught" =>
            cliPc # "caught" /\ result' = "none" /\ runStats' = NoStats]_vars
    /\ [][InPipeline /\ cliPc = "caught" => result' = "failure"]_vars

\* the template cannot be read: the run has stopped at render and returned
\* { success: false } with its stats set
C36_Witness ==
    /\ InPipeline /\ result = "failure"
    /\ stages[Len(stages)] = "render"
    /\ runStats = [endTime |-> TRUE, error |-> TRUE, pdf |-> "none"]

\* the PDF generator threw and the run is a success
C36_PdfWitness ==
    /\ InPipeline /\ result = "success"
    /\ runStats = [endTime |-> TRUE, error |-> FALSE, pdf |-> "failed"]

\* C37: fillPlaceholders and fillAllNarratives leave the document of their
\* caller as it was: no step of a fill changes reportJson, and every value
\* they write is in the returned copy only
C37_CallerDocumentUntouched ==
    /\ [][reportJson' = reportJson]_vars
    /\ [](\A f \in Fields : reportJson[f] \in InputValues)

\* a fill has returned a document that differs from the one it was given
C37_Witness ==
    /\ fillOutcome = "returned"
    /\ \E f \in Fields : filledReport[f] = "generated" /\ reportJson[f] = "marker"

\* C38: PuterAdapter.generate ends by returning a value or by throwing
\* 'Puter API call failed: <message>' with the message of a recorded last
\* error, whatever maxRetries is and whatever the backend answers
C38_PuterEndsWithRecordedError ==
    puter.pc = "ended" =>
        \/ puter.result = "returned"
        \/ puter.result = "call_failed" /\ puter.lastError # "none"

\* the fallback records are those of an LLMExecutor: the executor of
\* fillPlaceholders, or the one polishHTMLPass has built
LLMExecutorRecords ==
    \/ options.strategy = "perPlaceholder" /\ stage \notin {"polish", "done"}
    \/ stage \in {"polish", "done"} /\ pc # "polish_start"

\* C39: a callLLM makes at most one transition to a fallback model, and the
\* three fallback records of an LLMExecutor agree and are bounded:
\* modelSwitches = fallbackHistory.length = stats.fallbacks.length
\* <= (number of models in the chain) - 1
C39_FallbackRecordsAgree ==
    /\ [](LLMExecutorRecords =>
            /\ modelSwitches = Len(fallbackHistory)
            /\ Len(fallbackHistory) = Len(stats.fallbacks)
            /\ fallbackHistory = stats.fallbacks
            /\ modelSwitches <= NumModels - 1)
    /\ [][Len(fallbackHistory') > Len(fallbackHistory) =>
            /\ Len(fallbackHistory') = Len(fallbackHistory) + 1
            /\ ~fallbackAttempted /\ fallbackAttempted']_vars

\* an LLMExecutor that has fallen back through its whole chain
C39_Witness ==
    /\ options.strategy = "perPlaceholder" /\ stage = "fill"
    /\ options.model = 1
    /\ modelSwitches = NumModels - 1
    /\ Len(stats.fallbacks) = NumModels - 1

\* C40: outside the Groq-only mode a callLLM calls the secondary provider at
\* most once, only when its retry loop has ended with a rate-limit error as
\* the last error, and when that call fails too it throws the last error of
\* the primary provider
C40_GroqLastResort ==
    /\ [](loopGroq.calls <= 1)
    /\ [](loopPc = "groq" =>
            /\ loopGroq.adapter /\ loopGroq.calls = 0
            /\ loopGroq.lastError = "rateLimited")
    /\ [][loopPc' = "groq" /\ loopPc # "groq" =>
            /\ loopPc = "request"
            /\ loopFallbackAttempted \/ fallbackToNextModel(loopModel) = NoModel
            /\ loopAttempt' = loopAttempt /\ loopModel' = loopModel]_vars
    /\ [][loopPc = "groq" => loopPc' = "ended" /\ loopRequests' = loopRequests]_vars
    /\ [](loopGroq.calls = 1 /\ loopGroq.thrown # "none" =>
            loopGroq.thrown = "rateLimited" /\ loopGroq.thrown = loopGroq.lastError)

\* the primary provider ended rate-limited, Groq failed as well, and callLLM
\* has thrown the rate-limit error
C40_Witness ==
    /\ loopPc = "ended" /\ loopGroq.adapter
    /\ loopGroq.calls = 1
    /\ loopGroq.thrown = "rateLimited"
    /\ loopRequests >= 2

====
